---- MODULE Spec2Model ----
(***************************************************************************)
(* Model of the encryption subsystem of PoDoFo (main/PdfEncrypt.cpp):      *)
(* descriptors (PdfEncrypt and its RC4 / AESV2 / AESV3 variants), the      *)
(* encryption context (PdfEncryptContext), key derivation, authentication, *)
(* the encryption dictionary codec and the one-shot and streaming          *)
(* ciphers.                                                                *)
(*                                                                         *)
(* The primitives of the crypto library (MD5, SHA-2, RC4, AES-CBC) are     *)
(* ideal: a digest is an injective symbol of its input, RC4 is the XOR     *)
(* with a key stream that is a symbol of the key table, AES-CBC is an      *)
(* invertible symbol of (key, iv, plaintext).  Everything the repository   *)
(* itself does with bytes (padding, truncation, prefix copies, lengths,    *)
(* little-endian packing, comparisons) is computed on byte strings.        *)
(***************************************************************************)
EXTENDS Integers, Sequences, FiniteSets, TLC

(***************************************************************************)
(* Byte strings.  A byte string is a sequence of chunks; a chunk is n      *)
(* consecutive bytes, starting at offset o, of the value named by the term *)
(* t, every byte XORed with the constant m and with the key-stream bytes   *)
(* named in x.  x holds triples <<table, pos, I>>: the key streams, from   *)
(* their byte pos on, of the RC4 tables of the keys (key XOR i), i in I,   *)
(* where table is the table of key and (key XOR i) is key with every byte  *)
(* XORed with i.  A literal chunk carries its bytes in t.                  *)
(* Strings are kept in normal form (adjacent chunks that continue each     *)
(* other are merged), so equal strings are equal values.                   *)
(***************************************************************************)
LitChunk(s) == [t |-> <<"lit", s>>, o |-> 0, n |-> Len(s), m |-> 0, x |-> {}]

Lit(s) == IF s = <<>> THEN <<>> ELSE <<LitChunk(s)>>

Zeros(n) == Lit([i \in 1..n |-> 0])

Sym(term, n) == <<[t |-> term, o |-> 0, n |-> n, m |-> 0, x |-> {}]>>

IsLit(c) == c.t[1] = "lit"

ShiftKs(x, d) == {<<e[1], e[2] + d, e[3]>> : e \in x}

RECURSIVE BLen(_)
BLen(bs) == IF bs = <<>> THEN 0 ELSE bs[1].n + BLen(Tail(bs))

Mergeable(a, b) ==
    /\ a.m = b.m
    /\ ShiftKs(a.x, a.n) = b.x
    /\ IF IsLit(a) THEN IsLit(b)
       ELSE (~IsLit(b)) /\ b.o = a.o + a.n /\ a.t = b.t

Merge(a, b) ==
    IF IsLit(a)
    THEN [a EXCEPT !.t = <<"lit", a.t[2] \o b.t[2]>>, !.n = a.n + b.n]
    ELSE [a EXCEPT !.n = a.n + b.n]

Cat(a, b) ==
    IF a = <<>> THEN b
    ELSE IF b = <<>> THEN a
    ELSE IF Mergeable(a[Len(a)], b[1])
         THEN SubSeq(a, 1, Len(a) - 1) \o <<Merge(a[Len(a)], b[1])>> \o Tail(b)
         ELSE a \o b

SubChunk(c, a, k) ==
    IF IsLit(c)
    THEN [c EXCEPT !.t = <<"lit", SubSeq(c.t[2], a + 1, a + k)>>, !.n = k,
                   !.x = ShiftKs(c.x, a)]
    ELSE [c EXCEPT !.o = c.o + a, !.n = k, !.x = ShiftKs(c.x, a)]

\* bytes off .. off+n-1 of bs (0-based), fewer when bs is shorter
RECURSIVE Slice(_, _, _)
Slice(bs, off, n) ==
    IF n <= 0 \/ bs = <<>> THEN <<>>
    ELSE LET c == bs[1] IN
         IF off >= c.n THEN Slice(Tail(bs), off - c.n, n)
         ELSE LET k == IF off + n <= c.n THEN n ELSE c.n - off IN
              Cat(<<SubChunk(c, off, k)>>, Slice(Tail(bs), 0, n - k))

\* memcpy(dst + off, src, BLen(src)) on a buffer dst
Overwrite(dst, off, src) ==
    Cat(Cat(Slice(dst, 0, off), src),
        Slice(dst, off + BLen(src), BLen(dst) - off - BLen(src)))

RECURSIVE BitXor(_, _)
BitXor(a, b) ==
    IF a = 0 THEN b
    ELSE IF b = 0 THEN a
    ELSE (((a % 2) + (b % 2)) % 2) + 2 * BitXor(a \div 2, b \div 2)

RECURSIVE BitOr(_, _)
BitOr(a, b) ==
    IF a = 0 THEN b
    ELSE IF b = 0 THEN a
    ELSE (IF a % 2 = 1 \/ b % 2 = 1 THEN 1 ELSE 0) + 2 * BitOr(a \div 2, b \div 2)

RECURSIVE BitAnd(_, _)
BitAnd(a, b) ==
    IF a = 0 \/ b = 0 THEN 0
    ELSE (IF a % 2 = 1 /\ b % 2 = 1 THEN 1 ELSE 0) + 2 * BitAnd(a \div 2, b \div 2)

XorChunk(c, v) ==
    IF IsLit(c)
    THEN [c EXCEPT !.t = <<"lit", [i \in 1..c.n |-> BitXor(c.t[2][i], v)]>>]
    ELSE [c EXCEPT !.m = BitXor(c.m, v)]

\* every byte of bs XORed with the byte v
RECURSIVE XorConst(_, _)
XorConst(bs, v) ==
    IF bs = <<>> THEN <<>>
    ELSE Cat(<<XorChunk(bs[1], v)>>, XorConst(Tail(bs), v))

\* x with the key streams I of table at pos XORed in: a key stream XORed in
\* twice cancels
Toggle(x, table, pos, I) ==
    LET old == {e \in x : e[1] = table /\ e[2] = pos}
        oldI == UNION {e[3] : e \in old}
        newI == (oldI \ I) \cup (I \ oldI)
    IN (x \ old) \cup (IF newI = {} THEN {} ELSE {<<table, pos, newI>>})

\* bs XORed with the key streams I of table, whose byte pos meets the first
\* byte of bs
RECURSIVE XorKs(_, _, _, _)
XorKs(bs, table, I, pos) ==
    IF bs = <<>> THEN <<>>
    ELSE Cat(<<[bs[1] EXCEPT !.x = Toggle(bs[1].x, table, pos, I)]>>,
             XorKs(Tail(bs), table, I, pos + bs[1].n))

(***************************************************************************)
(* Program constants.                                                      *)
(***************************************************************************)
AES_IV_LENGTH == 16

AES_BLOCK_SIZE == 16

MD5_DIGEST_LENGTH == 16

\* constexpr unsigned char padding[]
padding ==
    Lit(<<40, 191, 78, 94, 78, 117, 138, 65, 100, 0, 78, 86, 255, 250, 1, 8,
          46, 46, 0, 182, 208, 104, 62, 128, 47, 12, 169, 254, 100, 83, 105, 122>>)

\* PERMS_DEFAULT = 0xFFFFF0C0; a 32-bit value is held as its four bytes,
\* least significant first
PERMS_DEFAULT == <<192, 240, 255, 255>>

Or32(p, q) == [i \in 1..4 |-> BitOr(p[i], q[i])]

(***************************************************************************)
(* The primitives of the crypto library, idealised.                        *)
(***************************************************************************)
\* MD5 of bs: 16 bytes.  The digest of the first kl bytes of a digest is
\* kept as a count of re-hash rounds, <<"md5", input, rounds, kl>>.
MD5(bs) ==
    IF /\ Len(bs) = 1
       /\ bs[1].t[1] = "md5"
       /\ bs[1].o = 0 /\ bs[1].m = 0 /\ bs[1].x = {}
       /\ (bs[1].t[3] = 0 \/ bs[1].t[4] = bs[1].n)
    THEN Sym(<<"md5", bs[1].t[2], bs[1].t[3] + 1, bs[1].n>>, MD5_DIGEST_LENGTH)
    ELSE Sym(<<"md5", bs, 0, 0>>, MD5_DIGEST_LENGTH)

SHA256(bs) == Sym(<<"sha256", bs>>, 32)

\* the RC4 key schedule: the permutation table of a key
KSA(key) == <<"ksa", key>>

\* EVP RC4: textin XOR the key stream of the key's table
EvpRC4(key, textin) == XorKs(textin, KSA(key), {0}, 0)

\* the PKCS#7 padding EVP_EncryptFinal_ex appends to n bytes of plaintext
PadBytes(n) ==
    Lit([i \in 1..(AES_BLOCK_SIZE - (n % AES_BLOCK_SIZE)) |->
            AES_BLOCK_SIZE - (n % AES_BLOCK_SIZE)])

\* AES-CBC with padding: the ciphertext of textin under (key, iv)
EvpAesCbcEncrypt(key, iv, textin) ==
    Sym(<<"aes", key, iv, textin>>,
        AES_BLOCK_SIZE * ((BLen(textin) \div AES_BLOCK_SIZE) + 1))

\* what the blocks of textin decrypt to under (key, iv), padding included:
\* the padded plaintext when textin is the leading blocks of a ciphertext of
\* the same key and iv, bytes unrelated to anything otherwise
EvpAesCbcDecryptRaw(key, iv, textin) ==
    IF /\ Len(textin) = 1
       /\ textin[1].t[1] = "aes"
       /\ textin[1].o = 0 /\ textin[1].m = 0 /\ textin[1].x = {}
       /\ textin[1].t[2] = key /\ textin[1].t[3] = iv
    THEN Slice(Cat(textin[1].t[4], PadBytes(BLen(textin[1].t[4]))), 0, textin[1].n)
    ELSE IF textin = <<>> THEN <<>>
    ELSE Sym(<<"aesdec", key, iv, textin>>, BLen(textin))

\* the number of padding bytes EVP_DecryptFinal_ex finds at the end of the
\* decrypted bytes (0: the padding is malformed).  It is computed when the
\* last block is known; whether bytes unrelated to anything end in a valid
\* padding is the caller's choice, garble.
RECURSIVE AllEqual(_, _, _)
AllEqual(s, from, v) ==
    IF from > Len(s) THEN TRUE
    ELSE s[from] = v /\ AllEqual(s, from + 1, v)

PadLenOf(plain, garble) ==
    IF plain = <<>> THEN 0
    ELSE LET c == plain[Len(plain)] IN
         IF IsLit(c) /\ c.x = {}
         THEN LET b == c.t[2][c.n] IN
              IF b >= 1 /\ b <= AES_BLOCK_SIZE /\ b <= c.n
                 /\ AllEqual(c.t[2], c.n - b + 1, b)
              THEN b ELSE 0
         ELSE garble

\* AES-256-CBC, IV zero, padding disabled (UE, OE, Perms)
EvpAesNoPadEncrypt(key, data) == Sym(<<"aesnp", key, data>>, BLen(data))

\* one block of CBC decryption: blk decrypts to the plaintext block it was
\* made from when the key is the same and prev is the block (or the zero
\* IV) that preceded it at encryption
EvpAesNoPadDecryptBlock(key, blk, prev) ==
    IF /\ Len(blk) = 1
       /\ blk[1].t[1] = "aesnp"
       /\ blk[1].m = 0 /\ blk[1].x = {}
       /\ blk[1].n = AES_BLOCK_SIZE
       /\ blk[1].o % AES_BLOCK_SIZE = 0
       /\ blk[1].t[2] = key
       /\ prev = (IF blk[1].o = 0 THEN Zeros(AES_BLOCK_SIZE)
                  ELSE <<[blk[1] EXCEPT !.o = blk[1].o - AES_BLOCK_SIZE]>>)
    THEN Slice(blk[1].t[3], blk[1].o, AES_BLOCK_SIZE)
    ELSE Sym(<<"aesnpdec", key, blk, prev>>, AES_BLOCK_SIZE)

(***************************************************************************)
(* PdfEncrypt: the descriptor.                                             *)
(***************************************************************************)
Min(a, b) == IF a < b THEN a ELSE b

\* the byte i (0-based) of a 32-bit value held as four bytes
U32Bytes(p) == Lit(p)

\* PdfEncrypt::PdfEncrypt(): the default-constructed descriptor.  The AESV3
\* members (ueValue, oeValue, permsValue) are empty for the other classes.
NoEnc ==
    [Algorithm |-> "None", rValue |-> 0, KeyLength |-> 0,
     pValue |-> <<0, 0, 0, 0>>,
     uValue |-> Zeros(48), oValue |-> Zeros(48),
     EncryptMetadata |-> FALSE, IsParsed |-> FALSE, initialized |-> FALSE,
     userPass |-> <<>>, ownerPass |-> <<>>,
     ueValue |-> <<>>, oeValue |-> <<>>, permsValue |-> <<>>]

GetKeyLengthBytes(e) == e.KeyLength \div 8

\* GetUValueRaw() / GetOValueRaw() read by a callee that takes 32 bytes
GetUValueRaw32(e) == Slice(e.uValue, 0, 32)

GetOValueRaw32(e) == Slice(e.oValue, 0, 32)

InitFromValues(e, algorithm, keyLength, revision, pValue, uValue, oValue, encryptedMetadata) ==
    [e EXCEPT !.Algorithm = algorithm, !.KeyLength = keyLength,
              !.rValue = revision, !.pValue = pValue,
              !.uValue = Overwrite(e.uValue, 0, uValue),
              !.oValue = Overwrite(e.oValue, 0, oValue),
              !.EncryptMetadata = encryptedMetadata,
              !.IsParsed = TRUE, !.initialized = TRUE]

InitFromScratch(e, userPassword, ownerPassword, algorithm, keyLength, revision, pValue, encryptedMetadata) ==
    [e EXCEPT !.userPass = userPassword, !.ownerPass = ownerPassword,
              !.Algorithm = algorithm, !.KeyLength = keyLength,
              !.rValue = revision, !.pValue = pValue,
              !.EncryptMetadata = encryptedMetadata]

clearSensitiveInfo(e) ==
    [e EXCEPT !.userPass = [i \in 1..Len(e.userPass) |-> 0],
              !.ownerPass = [i \in 1..Len(e.ownerPass) |-> 0]]

\* the loop of CheckKey from index k on: the result and the number of byte
\* comparisons made
RECURSIVE CheckKeyLoop(_, _, _, _, _)
CheckKeyLoop(key1, key2, keyLength, k, success) ==
    IF success /\ k < keyLength
    THEN CheckKeyLoop(key1, key2, keyLength, k + 1,
                      success /\ (Slice(key1, k, 1) = Slice(key2, k, 1)))
    ELSE [success |-> success, compared |-> k]

\* a comparison of the first byte only
CheckKeyFirstByte(e, key1, key2) == Slice(key1, 0, 1) = Slice(key2, 0, 1)

CheckKey(e, key1, key2) ==
    CheckKeyLoop(key1, key2, GetKeyLengthBytes(e), 0, TRUE).success

(***************************************************************************)
(* PdfEncryptMD5Base: the key derivation shared by RC4 and AESV2.          *)
(***************************************************************************)
\* the padding taken from the position the password ends at
PadPasswordPaddingContinued(password) ==
    LET m == Min(Len(password), 32) IN
    Cat(Lit(SubSeq(password, 1, m)), Slice(padding, m, 32 - m))

\* PdfEncryptMD5Base::PadPassword: the 32 bytes written to pswd
PadPassword(password) ==
    LET m == Min(Len(password), 32) IN
    Cat(Lit(SubSeq(password, 1, m)), Slice(padding, 0, 32 - m))

\* RC4Encrypt (the EVP one-shot) with textlen = textoutlen
RC4Encrypt(key, keylen, textin) == EvpRC4(Slice(key, 0, keylen), textin)

\* for (k = 0; k < rounds; k++) digest = MD5(digest[0 .. keyLength)),
\* rounds >= 1: the first round, then the count of the others
MoreRounds(d1, keyLength, more) ==
    Sym(<<"md5", d1[2], d1[3] + more, IF d1[3] + more = 0 THEN 0 ELSE keyLength>>,
        MD5_DIGEST_LENGTH)

MD5Rounds(digest, keyLength, rounds) ==
    MoreRounds(MD5(Slice(digest, 0, keyLength))[1].t, keyLength, rounds - 1)

\* the owner-key loop with the passes of Authenticate numbered from 20 down
OwnerRoundKeyOffByOne(authenticate, i) == IF authenticate THEN 20 - i ELSE i

\* the value XORed into the digest at pass i of the owner-key loop
OwnerRoundKey(authenticate, i) == IF authenticate THEN 19 - i ELSE i

\* the owner-key loop stopping one pass early: for (i = 0; i < 19; i++)
OwnerRoundsOnePassShort(ownerKey, digest, keyLength, authenticate) ==
    XorKs(ownerKey, KSA(Slice(digest, 0, keyLength)),
          {OwnerRoundKey(authenticate, i) : i \in 0..18}, 0)

\* for (i = 0; i < 20; i++) RC4Encrypt(digest XOR OwnerRoundKey(i), ownerKey):
\* the 20 passes XOR ownerKey with the key streams of their 20 keys
OwnerRounds(ownerKey, digest, keyLength, authenticate) ==
    XorKs(ownerKey, KSA(Slice(digest, 0, keyLength)),
          {OwnerRoundKey(authenticate, i) : i \in 0..19}, 0)

\* the 32 bytes written to ownerKey
ComputeOwnerKey(userPad, ownerPad, keyLength, revision, authenticate) ==
    IF revision = 3 \/ revision = 4
    THEN OwnerRounds(userPad, MD5Rounds(MD5(ownerPad), keyLength, 50),
                     keyLength, authenticate)
    ELSE RC4Encrypt(MD5(ownerPad), 5, userPad)

\* RC4Encrypt(key, digest), then for (k = 1; k < 20; k++)
\* RC4Encrypt(key XOR k, userKey): the key streams of the 20 keys
UserRounds(userKey16, encryptionKey, keyLength) ==
    XorKs(userKey16, KSA(Slice(encryptionKey, 0, keyLength)), {0} \cup 1..19, 0)

\* the 50 more rounds revisions 3 and 4 hash the digest with
RehashDigest(digest, keyLength, revision) ==
    IF revision = 3 \/ revision = 4 THEN MD5Rounds(digest, keyLength, 50) ELSE digest

\* the digest the encryption key is cut from
EncryptionKeyDigest(documentId, userPad, ownerKey, pValue, keyLength, revision, encryptMetadata) ==
    RehashDigest(
        MD5(Cat(Cat(Cat(Cat(userPad, ownerKey), U32Bytes(pValue)), documentId),
                IF encryptMetadata THEN <<>> ELSE Lit(<<255, 255, 255, 255>>))),
        keyLength, revision)

\* the second half of ComputeEncryptionKey: the user key made with the
\* encryption key that the first half wrote
ComputeUserKey(documentId, keyLength, revision, key) ==
    [encryptionKey |-> key,
     userKey |->
        IF revision = 3 \/ revision = 4
        THEN Cat(UserRounds(Slice(MD5(Cat(padding, documentId)), 0, 16), key, keyLength),
                 Zeros(16))
        ELSE RC4Encrypt(key, keyLength, padding)]

\* ComputeEncryptionKey: the encryption-key buffer after the call (its first
\* keyLength bytes rewritten) and the 32 bytes of userKey
ComputeEncryptionKey(documentId, userPad, ownerKey, pValue, keyLength, revision, encryptMetadata, encryptionKey) ==
    ComputeUserKey(documentId, keyLength, revision,
        Overwrite(encryptionKey, 0,
            Slice(EncryptionKeyDigest(documentId, userPad, ownerKey, pValue,
                                      keyLength, revision, encryptMetadata),
                  0, keyLength)))

\* the bytes of the object number alone
ObjRefBytesNoGeneration(n, g) ==
    Lit(<<n % 256, (n \div 256) % 256, (n \div 65536) % 256, 0, 0>>)

\* the low 3 bytes of the object number and the low 2 of the generation
ObjRefBytes(n, g) ==
    Lit(<<n % 256, (n \div 256) % 256, (n \div 65536) % 256,
          g % 256, (g \div 256) % 256>>)

\* CreateObjKey: objkey (16 bytes) and pnKeyLen
CreateObjKey(e, encryptionKey, objref) ==
    LET keyLength == GetKeyLengthBytes(e)
        nkey == Cat(Cat(Slice(encryptionKey, 0, keyLength),
                        ObjRefBytes(objref.n, objref.g)),
                    IF e.Algorithm = "AESV2" THEN Lit(<<115, 65, 108, 84>>) ELSE <<>>)
    IN [objkey |-> MD5(nkey),
        keylen |-> IF keyLength <= 11 THEN keyLength + 5 ELSE 16]

(***************************************************************************)
(* PdfEncryptAESV3: the SHA-256 family.                                    *)
(***************************************************************************)
\* sprep::TrySASLprep: control characters are prohibited, the no-break
\* space (C2 A0) is mapped to a space, the soft hyphen (C2 AD) to nothing,
\* other bytes are kept
RECURSIVE SASLprepFrom(_, _)
SASLprepFrom(s, i) ==
    IF i > Len(s) THEN [ok |-> TRUE, prepd |-> <<>>]
    ELSE IF s[i] < 32 \/ s[i] = 127 THEN [ok |-> FALSE, prepd |-> <<>>]
    ELSE IF s[i] = 194 /\ i < Len(s) /\ s[i + 1] = 160
         THEN LET r == SASLprepFrom(s, i + 2) IN [r EXCEPT !.prepd = <<32>> \o @]
    ELSE IF s[i] = 194 /\ i < Len(s) /\ s[i + 1] = 173
         THEN SASLprepFrom(s, i + 2)
    ELSE LET r == SASLprepFrom(s, i + 1) IN [r EXCEPT !.prepd = <<s[i]>> \o @]

TrySASLprep(password) == SASLprepFrom(password, 1)

\* preprocessPassword: ok is FALSE where the code raises InvalidPassword
preprocessPassword(password) ==
    LET r == TrySASLprep(password) IN
    [ok |-> r.ok,
     buf |-> Lit(SubSeq(r.prepd, 1, IF Len(r.prepd) > 127 THEN 127 ELSE Len(r.prepd)))]

\* computeHash; uValue is <<>> where the code passes nullptr.  The
\* hardening loop of revision 6 is a function of the password, the first
\* hash and uValue only: it is kept as a symbol of the three.
computeHash(pswd, revision, salt, uValue) ==
    LET hashValue == SHA256(Cat(Cat(pswd, salt), Slice(uValue, 0, 48))) IN
    IF revision > 5
    THEN Sym(<<"hardened", pswd, Slice(uValue, 0, 48), hashValue>>, 32)
    ELSE hashValue

\* rand() % 255: the i-th draw after srand(seed).  The generator is the C
\* library's; all that is kept of it is that the stream is a function of
\* the seed.
RandByte(seed, i) == ((seed * 89) + (i * 37) + 11) % 255

\* n draws, draw k of them being draw first + k * step of the stream
RandBytes(seed, first, step, n) ==
    Lit([k \in 1..n |-> RandByte(seed, first + (k - 1) * step)])

\* computeUserKey with the generator at rng: uValue (48 bytes), ueValue
computeUserKey(userpswd, revision, keyLength, encryptionKey, rng) ==
    LET vSalt == RandBytes(rng.seed, rng.n, 2, 8)
        kSalt == RandBytes(rng.seed, rng.n + 1, 2, 8)
    IN [uValue |-> Cat(Cat(computeHash(userpswd, revision, vSalt, <<>>), vSalt), kSalt),
        ueValue |-> EvpAesNoPadEncrypt(computeHash(userpswd, revision, kSalt, <<>>),
                                       Slice(encryptionKey, 0, keyLength))]

\* computeOwnerKey with the generator at rng: oValue (48 bytes), oeValue
computeOwnerKey(ownerpswd, revision, keyLength, encryptionKey, uValue, rng) ==
    LET vSalt == RandBytes(rng.seed, rng.n, 2, 8)
        kSalt == RandBytes(rng.seed, rng.n + 1, 2, 8)
    IN [oValue |-> Cat(Cat(computeHash(ownerpswd, revision, vSalt, uValue), vSalt), kSalt),
        oeValue |-> EvpAesNoPadEncrypt(computeHash(ownerpswd, revision, kSalt, uValue),
                                       Slice(encryptionKey, 0, keyLength))]

\* the 16 bytes encrypted into Perms
PermsPlain(e) ==
    Cat(U32Bytes(e.pValue),
        Lit(<<255, 255, 255, 255, IF e.EncryptMetadata THEN 84 ELSE 70,
              97, 100, 98, 0, 0, 0, 0>>))

\* the end of GenerateEncryptionKey: what it leaves, given the key and the
\* user and owner values it computed
GeneratedAESV3(e, key, u, o) ==
    [err |-> "None",
     enc |-> [e EXCEPT !.uValue = Overwrite(e.uValue, 0, u.uValue),
                       !.oValue = Overwrite(e.oValue, 0, o.oValue),
                       !.ueValue = u.ueValue, !.oeValue = o.oeValue,
                       !.permsValue = EvpAesNoPadEncrypt(Slice(key, 0, 32), PermsPlain(e))],
     encryptionKey |-> key,
     draws |-> GetKeyLengthBytes(e) + 32]

\* computeOwnerKey follows computeUserKey and takes the uValue it wrote
GenerateOwnerAESV3(e, key, ownerpswd, now, u) ==
    GeneratedAESV3(e, key, u,
        computeOwnerKey(ownerpswd, e.rValue, GetKeyLengthBytes(e), key, u.uValue,
                        [seed |-> now, n |-> GetKeyLengthBytes(e) + 16]))

\* computeUserKey follows computeEncryptionKey and takes the key it drew
GenerateUserAESV3(e, userpswd, ownerpswd, now, key) ==
    GenerateOwnerAESV3(e, key, ownerpswd, now,
        computeUserKey(userpswd, e.rValue, GetKeyLengthBytes(e), key,
                       [seed |-> now, n |-> GetKeyLengthBytes(e)]))

\* computeEncryptionKey: srand(now), then keyLength draws into the key
computeEncryptionKey(keyLength, encryptionKey, now) ==
    Overwrite(encryptionKey, 0, RandBytes(now, 0, 1, keyLength))

\* PdfEncryptAESV3::GenerateEncryptionKey, time(nullptr) being now
GenerateEncryptionKeyAESV3(e, encryptionKey, now) ==
    IF ~(preprocessPassword(e.userPass).ok /\ preprocessPassword(e.ownerPass).ok)
    THEN [err |-> "InvalidPassword", enc |-> e, encryptionKey |-> encryptionKey,
          draws |-> 0]
    ELSE GenerateUserAESV3(e, preprocessPassword(e.userPass).buf,
                           preprocessPassword(e.ownerPass).buf, now,
                           computeEncryptionKey(GetKeyLengthBytes(e), encryptionKey, now))

\* EVP_DecryptUpdate of the 32 bytes of UE / OE, padding disabled, IV zero
DecryptKey32(hashValue, value) ==
    Cat(EvpAesNoPadDecryptBlock(hashValue, Slice(value, 0, 16), Zeros(16)),
        EvpAesNoPadDecryptBlock(hashValue, Slice(value, 16, 16), Slice(value, 0, 16)))

\* PdfEncryptAESV3::Authenticate clearing the key buffer when neither test
\* passes
AuthenticateAESV3ClearsKey(e, password, encryptionKey) ==
    LET p == preprocessPassword(password)
        uSalt(off) == Slice(e.uValue, off, 8)
        oSalt(off) == Slice(e.oValue, off, 8)
        u48 == Slice(e.uValue, 0, 48)
    IN IF ~p.ok
       THEN [err |-> "InvalidPassword", ret |-> "Failed", encryptionKey |-> encryptionKey]
       ELSE IF CheckKey(e, computeHash(p.buf, e.rValue, uSalt(32), <<>>), e.uValue)
       THEN [err |-> "None", ret |-> "User",
             encryptionKey |->
                 Overwrite(encryptionKey, 0,
                     DecryptKey32(computeHash(p.buf, e.rValue, uSalt(40), <<>>), e.ueValue))]
       ELSE IF CheckKey(e, computeHash(p.buf, e.rValue, oSalt(32), u48), e.oValue)
       THEN [err |-> "None", ret |-> "Owner",
             encryptionKey |->
                 Overwrite(encryptionKey, 0,
                     DecryptKey32(computeHash(p.buf, e.rValue, oSalt(40), u48), e.oeValue))]
       ELSE [err |-> "None", ret |-> "Failed",
             encryptionKey |-> Zeros(BLen(encryptionKey))]

\* PdfEncryptAESV3::Authenticate
AuthenticateAESV3(e, password, encryptionKey) ==
    LET p == preprocessPassword(password)
        uSalt(off) == Slice(e.uValue, off, 8)
        oSalt(off) == Slice(e.oValue, off, 8)
        u48 == Slice(e.uValue, 0, 48)
    IN IF ~p.ok
       THEN [err |-> "InvalidPassword", ret |-> "Failed", encryptionKey |-> encryptionKey]
       ELSE IF CheckKey(e, computeHash(p.buf, e.rValue, uSalt(32), <<>>), e.uValue)
       THEN [err |-> "None", ret |-> "User",
             encryptionKey |->
                 Overwrite(encryptionKey, 0,
                     DecryptKey32(computeHash(p.buf, e.rValue, uSalt(40), <<>>), e.ueValue))]
       ELSE IF CheckKey(e, computeHash(p.buf, e.rValue, oSalt(32), u48), e.oValue)
       THEN [err |-> "None", ret |-> "Owner",
             encryptionKey |->
                 Overwrite(encryptionKey, 0,
                     DecryptKey32(computeHash(p.buf, e.rValue, oSalt(40), u48), e.oeValue))]
       ELSE [err |-> "None", ret |-> "Failed", encryptionKey |-> encryptionKey]

(***************************************************************************)
(* PdfEncryptRC4 and PdfEncryptAESV2: key generation and authentication.   *)
(* rc4 says whether the crypto library provides RC4 (ssl::Rc4() is not     *)
(* nullptr); without it RC4Encrypt stops at its assertion, after what the  *)
(* callers wrote before reaching it.                                       *)
(***************************************************************************)
\* the end of GenerateEncryptionKey: k is what ComputeEncryptionKey made
GeneratedMD5(e, oValue, k) ==
    [err |-> "None",
     enc |-> [e EXCEPT !.oValue = Overwrite(e.oValue, 0, oValue),
                       !.uValue = Overwrite(e.uValue, 0, k.userKey)],
     encryptionKey |-> k.encryptionKey, draws |-> 0]

\* ComputeEncryptionKey follows ComputeOwnerKey and takes the oValue it wrote
GenerateUserMD5(e, documentId, encryptionKey, userpswd, oValue) ==
    GeneratedMD5(e, oValue,
        ComputeEncryptionKey(documentId, userpswd, oValue, e.pValue, GetKeyLengthBytes(e),
                             e.rValue, e.EncryptMetadata, encryptionKey))

\* GenerateEncryptionKey with the passwords padded.  Without RC4 the first
\* RC4Encrypt stops it: revisions 3 and 4 have copied userpswd to oValue by
\* then
GeneratePaddedMD5(e, documentId, encryptionKey, rc4, userpswd, ownerpswd) ==
    IF ~rc4
    THEN [err |-> "AssertionFailed",
          enc |-> IF e.rValue = 3 \/ e.rValue = 4
                  THEN [e EXCEPT !.oValue = Overwrite(e.oValue, 0, userpswd)]
                  ELSE e,
          encryptionKey |-> encryptionKey, draws |-> 0]
    ELSE GenerateUserMD5(e, documentId, encryptionKey, userpswd,
            ComputeOwnerKey(userpswd, ownerpswd, GetKeyLengthBytes(e), e.rValue, FALSE))

\* PdfEncryptRC4::GenerateEncryptionKey, PdfEncryptAESV2::GenerateEncryptionKey
GenerateEncryptionKeyMD5(e, documentId, encryptionKey, rc4) ==
    GeneratePaddedMD5(e, documentId, encryptionKey, rc4,
                      PadPassword(e.userPass), PadPassword(e.ownerPass))

\* the end of Authenticate: k2 is what ComputeEncryptionKey made of the
\* password taken as the owner's
AuthenticateAsOwner(e, k2) ==
    [err |-> "None",
     ret |-> IF CheckKey(e, k2.userKey, GetUValueRaw32(e)) THEN "Owner" ELSE "Failed",
     encryptionKey |-> k2.encryptionKey]

\* Authenticate from its first CheckKey on: k1 is what ComputeEncryptionKey
\* made of the password taken as the user's.  Without RC4 that call stopped
\* at RC4Encrypt, the encryption key already written.
AuthenticateAsUser(e, pswd, documentId, rc4, k1) ==
    IF ~rc4
    THEN [err |-> "AssertionFailed", ret |-> "Failed", encryptionKey |-> k1.encryptionKey]
    ELSE IF CheckKey(e, k1.userKey, GetUValueRaw32(e))
    THEN [err |-> "None", ret |-> "User", encryptionKey |-> k1.encryptionKey]
    ELSE AuthenticateAsOwner(e,
            ComputeEncryptionKey(documentId,
                ComputeOwnerKey(GetOValueRaw32(e), pswd, GetKeyLengthBytes(e), e.rValue, TRUE),
                GetOValueRaw32(e), e.pValue, GetKeyLengthBytes(e), e.rValue,
                e.EncryptMetadata, k1.encryptionKey))

AuthenticatePadded(e, pswd, documentId, encryptionKey, rc4) ==
    AuthenticateAsUser(e, pswd, documentId, rc4,
        ComputeEncryptionKey(documentId, pswd, GetOValueRaw32(e), e.pValue,
                             GetKeyLengthBytes(e), e.rValue, e.EncryptMetadata,
                             encryptionKey))

\* PdfEncryptRC4::Authenticate, PdfEncryptAESV2::Authenticate
AuthenticateMD5(e, password, documentId, encryptionKey, rc4) ==
    AuthenticatePadded(e, PadPassword(password), documentId, encryptionKey, rc4)

IsAESV3(e) == e.Algorithm \in {"AESV3R5", "AESV3R6"}

\* the virtual GenerateEncryptionKey / Authenticate of the descriptor's class
GenerateEncryptionKey(e, documentId, encryptionKey, now, rc4) ==
    IF IsAESV3(e) THEN GenerateEncryptionKeyAESV3(e, encryptionKey, now)
    ELSE GenerateEncryptionKeyMD5(e, documentId, encryptionKey, rc4)

AuthenticateImpl(e, password, documentId, encryptionKey, rc4) ==
    IF IsAESV3(e) THEN AuthenticateAESV3(e, password, encryptionKey)
    ELSE AuthenticateMD5(e, password, documentId, encryptionKey, rc4)

(***************************************************************************)
(* Construction of descriptors.  A constructor or factory yields err (the  *)
(* error kind raised, "None" when it returns) and enc (the descriptor, the *)
(* default-constructed one when it raised).                                *)
(***************************************************************************)
\* a 32-bit unsigned value, held as four bytes least significant first, as
\* a number when it is below 256 and 256 otherwise
Low8(w) == IF w[2] = 0 /\ w[3] = 0 /\ w[4] = 0 THEN w[1] ELSE 256

U32(n) == <<n % 256, (n \div 256) % 256, 0, 0>>

\* ssl::Rc4() != nullptr decides what GetEnabledEncryptionAlgorithms holds
GetEnabledEncryptionAlgorithms(rc4) ==
    {"AESV2", "AESV3R5", "AESV3R6"} \cup (IF rc4 THEN {"RC4V1", "RC4V2"} ELSE {})

\* every algorithm taken as enabled
IsEncryptionEnabledAlways(algorithm, rc4) == TRUE

IsEncryptionEnabled(algorithm, rc4) ==
    algorithm \in GetEnabledEncryptionAlgorithms(rc4)

\* normalizeKeyLength on a 32-bit unsigned keyLength
normalizeKeyLength(keyLength) ==
    LET k == Low8(keyLength)
        r == k - (k % 8)
    IN IF r < 40 THEN 40 ELSE IF r > 128 THEN 128 ELSE r

\* PdfEncryptRC4(oValue, uValue, pValue, revision, algorithm, keyLength,
\* encryptMetadata): the descriptor parsed from a dictionary
PdfEncryptRC4FromValues(oValue, uValue, pValue, revision, algorithm, keyLength, encryptMetadata) ==
    IF BLen(uValue) < 32 \/ BLen(oValue) < 32
    THEN [err |-> "InvalidEncryptionDict", enc |-> NoEnc]
    ELSE [err |-> "None",
          enc |-> InitFromValues(NoEnc, algorithm, normalizeKeyLength(keyLength),
                                 revision[1], pValue, Slice(uValue, 0, 32),
                                 Slice(oValue, 0, 32), encryptMetadata)]

\* PdfEncryptRC4(userPassword, ownerPassword, protection, algorithm, keyLength)
PdfEncryptRC4FromScratch(userPassword, ownerPassword, protection, algorithm, keyLength) ==
    LET rValue == IF algorithm = "RC4V1" THEN 2 ELSE 3
        length == IF keyLength # 0 THEN keyLength
                  ELSE IF algorithm = "RC4V1" THEN 40 ELSE 128
        valid == IF algorithm = "RC4V1" THEN length = 40
                 ELSE length \in {40 + 8 * i : i \in 0..11}
    IN IF algorithm \notin {"RC4V1", "RC4V2"}
       THEN [err |-> "InvalidEnumValue", enc |-> NoEnc]
       ELSE IF ~valid
       THEN [err |-> "InvalidEncryptionDict", enc |-> NoEnc]
       ELSE [err |-> "None",
             enc |-> InitFromScratch(NoEnc, userPassword, ownerPassword, algorithm, length,
                                     rValue, Or32(PERMS_DEFAULT, protection), TRUE)]

PdfEncryptAESV2FromScratch(userPassword, ownerPassword, protection) ==
    InitFromScratch(NoEnc, userPassword, ownerPassword, "AESV2", 128, 4,
                    Or32(PERMS_DEFAULT, protection), TRUE)

\* the constructor without its checks of the sizes
PdfEncryptAESV2Unchecked(oValue, uValue, pValue, encryptMetadata) ==
    [err |-> "None",
     enc |-> InitFromValues(NoEnc, "AESV2", 128, 4, pValue, Slice(uValue, 0, 32),
                            Slice(oValue, 0, 32), encryptMetadata)]

PdfEncryptAESV2FromValues(oValue, uValue, pValue, encryptMetadata) ==
    IF BLen(oValue) < 32 \/ BLen(uValue) < 32
    THEN [err |-> "InvalidEncryptionDict", enc |-> NoEnc]
    ELSE [err |-> "None",
          enc |-> InitFromValues(NoEnc, "AESV2", 128, 4, pValue, Slice(uValue, 0, 32),
                                 Slice(oValue, 0, 32), encryptMetadata)]

\* the AESV3 members are zero-initialised by this constructor
PdfEncryptAESV3FromScratch(userPassword, ownerPassword, revision, protection) ==
    [InitFromScratch(NoEnc, userPassword, ownerPassword,
                     IF revision = 6 THEN "AESV3R6" ELSE "AESV3R5", 256, revision,
                     Or32(PERMS_DEFAULT, protection), TRUE)
        EXCEPT !.ueValue = Zeros(32), !.oeValue = Zeros(32), !.permsValue = Zeros(16)]

PdfEncryptAESV3FromValues(oValue, oeValue, uValue, ueValue, pValue, permsValue, revision) ==
    IF \/ BLen(uValue) < 48 \/ BLen(oValue) < 48
       \/ BLen(ueValue) < 32 \/ BLen(oeValue) < 32
       \/ BLen(permsValue) < 16
    THEN [err |-> "InvalidEncryptionDict", enc |-> NoEnc]
    ELSE [err |-> "None",
          enc |-> [InitFromValues(NoEnc, IF revision[1] = 6 THEN "AESV3R6" ELSE "AESV3R5",
                                  256, revision[1], pValue, Slice(uValue, 0, 48),
                                  Slice(oValue, 0, 48), TRUE)
                      EXCEPT !.ueValue = Slice(ueValue, 0, 32),
                             !.oeValue = Slice(oeValue, 0, 32),
                             !.permsValue = Slice(permsValue, 0, 16)]]

\* PdfEncryptAESV3(const PdfEncryptAESV3& rhs): the base is copied, then
\* size(m_permsValue) = 16 bytes of each of Perms, UE and OE; the other bytes
\* of UE and OE are not initialised and hold ueRest and oeRest
PdfEncryptAESV3Copy(rhs, ueRest, oeRest) ==
    [rhs EXCEPT !.permsValue = Slice(rhs.permsValue, 0, 16),
                !.ueValue = Cat(Slice(rhs.ueValue, 0, 16), ueRest),
                !.oeValue = Cat(Slice(rhs.oeValue, 0, 16), oeRest)]

\* what 16 bytes of memory that was not initialised can hold: what the
\* source held there, zeros, or bytes unrelated to anything
Fills == {"held", "zero", "other"}

Indeterminate(held, fill) ==
    IF fill = "held" THEN held
    ELSE IF fill = "zero" THEN Zeros(16)
    ELSE Sym(<<"indeterminate">>, 16)

\* PdfEncrypt::Create; keyLength 0 is PdfKeyLength::Unknown
Create(userPassword, ownerPassword, protection, algorithm, keyLength, rc4) ==
    IF ~IsEncryptionEnabled(algorithm, rc4)
    THEN [err |-> "UnsupportedFilter", enc |-> NoEnc]
    ELSE IF algorithm \in {"AESV3R5", "AESV3R6"}
    THEN IF keyLength # 0 /\ keyLength # 256
         THEN [err |-> "InvalidEncryptionDict", enc |-> NoEnc]
         ELSE [err |-> "None",
               enc |-> PdfEncryptAESV3FromScratch(userPassword, ownerPassword,
                           IF algorithm = "AESV3R6" THEN 6 ELSE 5, protection)]
    ELSE IF algorithm \in {"RC4V1", "RC4V2"}
    THEN PdfEncryptRC4FromScratch(userPassword, ownerPassword, protection, algorithm, keyLength)
    ELSE IF algorithm = "AESV2"
    THEN IF keyLength # 0 /\ keyLength # 128
         THEN [err |-> "InvalidEncryptionDict", enc |-> NoEnc]
         ELSE [err |-> "None",
               enc |-> PdfEncryptAESV2FromScratch(userPassword, ownerPassword, protection)]
    ELSE [err |-> "InvalidEnumValue", enc |-> NoEnc]

\* PdfEncrypt::CreateFromEncrypt
CreateFromEncrypt(rhs, ueRest, oeRest) ==
    IF rhs.Algorithm \in {"RC4V1", "RC4V2", "AESV2"}
    THEN [err |-> "None", enc |-> rhs]
    ELSE IF IsAESV3(rhs)
    THEN [err |-> "None", enc |-> PdfEncryptAESV3Copy(rhs, ueRest, oeRest)]
    ELSE [err |-> "InvalidEnumValue", enc |-> NoEnc]

(***************************************************************************)
(* The encryption dictionary.  A dictionary is a record of entries; an     *)
(* entry is <<"null">> (absent), <<"name", s>>, <<"num", n>> (n the 64-bit *)
(* number as eight bytes, least significant first), <<"str", bytes>>,      *)
(* <<"bool", b>> or <<"dict", d>>.                                         *)
(***************************************************************************)
Null == <<"null">>

Name(s) == <<"name", s>>

\* the number n, 0 <= n < 65536
Num(n) == <<"num", <<n % 256, (n \div 256) % 256, 0, 0, 0, 0, 0, 0>>>>

Str(bs) == <<"str", bs>>

Bool(b) == <<"bool", b>>

Dict(d) == <<"dict", d>>

\* PdfDictionary(): no entry
EmptyDict ==
    [Filter |-> Null, V |-> Null, R |-> Null, Length |-> Null, P |-> Null,
     O |-> Null, U |-> Null, OE |-> Null, UE |-> Null, Perms |-> Null,
     EncryptMetadata |-> Null, CF |-> Null, StrF |-> Null, StmF |-> Null]

\* static_cast<unsigned>(number): the low 32 bits
Unsigned(num) == SubSeq(num[2], 1, 4)

\* (int64_t)m_pValue: the permissions widened as an unsigned quantity
GetPValueZeroExtended(e) ==
    e.pValue \o <<0, 0, 0, 0>>

\* (int64_t)(int32_t)m_pValue
GetPValueForSerialization(e) ==
    e.pValue \o (IF e.pValue[4] >= 128 THEN <<255, 255, 255, 255>> ELSE <<0, 0, 0, 0>>)

\* PdfEncryptMD5Base::CreateEncryptionDictionary on an empty dictionary
CreateEncryptionDictionaryMD5(e) ==
    LET stdCf == [CFM |-> IF e.Algorithm = "RC4V2" THEN Name("V2") ELSE Name("AESV2"),
                  Length |-> Num(16), AuthEvent |-> Name("DocOpen")]
        base == [EmptyDict EXCEPT !.Filter = Name("Standard"),
                                  !.O = Str(GetOValueRaw32(e)),
                                  !.U = Str(GetUValueRaw32(e)),
                                  !.P = <<"num", GetPValueForSerialization(e)>>]
    IN IF e.Algorithm = "AESV2" \/ ~e.EncryptMetadata
       THEN [base EXCEPT !.CF = Dict([StdCF |-> Dict(stdCf)]),
                         !.StrF = Name("StdCF"), !.StmF = Name("StdCF"),
                         !.V = Num(4), !.R = Num(4), !.Length = Num(128),
                         !.EncryptMetadata =
                             IF ~e.EncryptMetadata THEN Bool(FALSE) ELSE Null]
       ELSE IF e.Algorithm = "RC4V1"
       THEN [base EXCEPT !.V = Num(1), !.R = Num(e.rValue)]
       ELSE IF e.Algorithm = "RC4V2"
       THEN [base EXCEPT !.V = Num(2), !.R = Num(3), !.Length = Num(e.KeyLength)]
       ELSE base

\* PdfEncryptAESV3::CreateEncryptionDictionary on an empty dictionary
CreateEncryptionDictionaryAESV3(e) ==
    [EmptyDict EXCEPT
        !.Filter = Name("Standard"),
        !.V = Num(5), !.R = Num(e.rValue), !.Length = Num(256),
        !.O = Str(Slice(e.oValue, 0, 48)), !.U = Str(Slice(e.uValue, 0, 48)),
        !.CF = Dict([StdCF |-> Dict([CFM |-> Name("AESV3"), Length |-> Num(32),
                                     AuthEvent |-> Name("DocOpen")])]),
        !.StrF = Name("StdCF"), !.StmF = Name("StdCF"),
        !.P = <<"num", GetPValueForSerialization(e)>>,
        !.OE = Str(e.oeValue), !.UE = Str(e.ueValue), !.Perms = Str(e.permsValue)]

CreateEncryptionDictionary(e) ==
    IF IsAESV3(e) THEN CreateEncryptionDictionaryAESV3(e)
    ELSE CreateEncryptionDictionaryMD5(e)

\* the name of the crypt filter method of the stream filter, "" when the
\* chain StmF -> CF -> [StmF] -> CFM breaks
CfmName(dictionary) ==
    IF dictionary.StmF[1] = "name" /\ dictionary.CF[1] = "dict"
    THEN LET cf == dictionary.CF[2]
             stmf == dictionary.StmF[2]
         IN IF stmf \in DOMAIN cf /\ cf[stmf][1] = "dict"
            THEN LET filter == cf[stmf][2] IN
                 IF "CFM" \in DOMAIN filter /\ filter.CFM[1] = "name"
                 THEN filter.CFM[2] ELSE ""
            ELSE ""
    ELSE ""

\* PdfEncrypt::CreateFromObject, for a dictionary whose V, R and P are
\* numbers and whose O and U are strings (and OE, UE, Perms when V is 5
\* with R 5 or 6); the failure of the accessors on others is not this file's
CreateFromObject(dictionary, rc4) ==
    LET lV == Unsigned(dictionary.V)
        rValue == Unsigned(dictionary.R)
        pValue == Unsigned(dictionary.P)
        oValue == dictionary.O[2]
        uValue == dictionary.U[2]
        length == IF dictionary.Length # Null THEN Unsigned(dictionary.Length)
                  ELSE U32(0)
        encryptMetadata == IF dictionary.EncryptMetadata[1] = "bool"
                           THEN dictionary.EncryptMetadata[2] ELSE TRUE
        cfmName == CfmName(dictionary)
    IN IF dictionary.Filter = Null \/ dictionary.Filter # Name("Standard")
       THEN [err |-> "UnsupportedFilter", enc |-> NoEnc]
       ELSE IF lV = U32(1) /\ (rValue = U32(2) \/ rValue = U32(3))
               /\ IsEncryptionEnabled("RC4V1", rc4)
       THEN PdfEncryptRC4FromValues(oValue, uValue, pValue, rValue, "RC4V1", U32(40),
                                    encryptMetadata)
       ELSE IF ((lV = U32(2) /\ rValue = U32(3)) \/ cfmName = "V2")
               /\ IsEncryptionEnabled("RC4V2", rc4)
       THEN PdfEncryptRC4FromValues(oValue, uValue, pValue, rValue, "RC4V2", length,
                                    encryptMetadata)
       ELSE IF lV = U32(4) /\ rValue = U32(4) /\ IsEncryptionEnabled("AESV2", rc4)
       THEN PdfEncryptAESV2FromValues(oValue, uValue, pValue, encryptMetadata)
       ELSE IF lV = U32(5)
               /\ \/ (rValue = U32(5) /\ IsEncryptionEnabled("AESV3R5", rc4))
                  \/ (rValue = U32(6) /\ IsEncryptionEnabled("AESV3R6", rc4))
       THEN PdfEncryptAESV3FromValues(oValue, dictionary.OE[2], uValue, dictionary.UE[2],
                                      pValue, dictionary.Perms[2], rValue)
       ELSE [err |-> "UnsupportedFilter", enc |-> NoEnc]

(***************************************************************************)
(* PdfEncryptContext.                                                       *)
(***************************************************************************)
\* PdfEncryptContext(): cryptCtx and customCtx are null (0 / <<>>)
NewContext ==
    [encryptionKey |-> Zeros(32), AuthResult |-> "Unknown", documentId |-> <<>>,
     cryptCtx |-> 0, customCtx |-> <<>>]

IsAuthenticated(c) == c.AuthResult = "User" \/ c.AuthResult = "Owner"

\* GetCryptCtx: the context after the call (the handle is made on first use)
GetCryptCtx(c) == IF c.cryptCtx = 0 THEN [c EXCEPT !.cryptCtx = 1] ELSE c

\* GetCustomCtx<RC4EncryptContext>: the context after the call; the scratch
\* state is made, zero-filled, on first use
GetCustomCtx(c) ==
    IF c.customCtx = <<>>
    THEN [c EXCEPT !.customCtx = <<[Rc4key |-> Zeros(16), Rc4last |-> <<"ksa", <<>>>>]>>]
    ELSE c

\* the member-wise copy: every member of rhs, its cipher handle included
CopyContextMemberwise(rhs) == rhs

\* PdfEncryptContext(const PdfEncryptContext& rhs): the members named in the
\* initialiser list and the body; m_documentId is not among them and is
\* default-constructed
CopyContext(rhs) ==
    [encryptionKey |-> rhs.encryptionKey, AuthResult |-> rhs.AuthResult,
     documentId |-> <<>>, cryptCtx |-> 0, customCtx |-> rhs.customCtx]

\* PdfEncryptContext::operator=(rhs) on the context lhs: m_documentId of lhs
\* is not assigned
AssignContext(lhs, rhs) ==
    [lhs EXCEPT !.AuthResult = rhs.AuthResult,
                !.encryptionKey = rhs.encryptionKey,
                !.cryptCtx = 0,
                !.customCtx = rhs.customCtx]

\* the destructor without the memset of the scratch state
DestroyContextKeyOnly(c) ==
    [c EXCEPT !.encryptionKey = Zeros(BLen(c.encryptionKey)), !.cryptCtx = 0]

\* PdfEncryptContext::~PdfEncryptContext(): what the memory of the context
\* and of its scratch state holds when it is released
DestroyContext(c) ==
    [c EXCEPT !.encryptionKey = Zeros(BLen(c.encryptionKey)),
              !.customCtx = IF c.customCtx = <<>> THEN <<>>
                            ELSE <<[Rc4key |-> Zeros(BLen(c.customCtx[1].Rc4key)),
                                    Rc4last |-> <<"ksa", <<>>>>]>>,
              !.cryptCtx = 0]

(***************************************************************************)
(* One-shot encryption and decryption.                                     *)
(***************************************************************************)
IsRC4(e) == e.Algorithm \in {"RC4V1", "RC4V2"}

CalculateStreamOffset(e) == IF IsRC4(e) THEN 0 ELSE AES_IV_LENGTH

\* CalculateStreamLength without the block of padding a multiple of 16 takes
CalculateStreamLengthNoPaddingBlock(e, length) ==
    IF IsRC4(e) THEN length
    ELSE BitAnd(length + 15, 2147483632) + AES_IV_LENGTH

\* ((length + 15) & ~15) + AES_IV_LENGTH, 16 more for a multiple of 16;
\* ~15 is taken on the 31 bits the lengths of the model fit in
CalculateStreamLength(e, length) ==
    IF IsRC4(e) THEN length
    ELSE LET realLength == BitAnd(length + 15, 2147483632) + AES_IV_LENGTH IN
         IF length % 16 = 0 THEN realLength + 16 ELSE realLength

\* AESEncrypt: the bytes written to textout
AESEncrypt(key, keyLen, iv, textin) ==
    IF keyLen = 16 \/ keyLen = 32
    THEN [err |-> "None", textout |-> EvpAesCbcEncrypt(Slice(key, 0, keyLen), iv, textin)]
    ELSE [err |-> "InternalLogic", textout |-> <<>>]

\* what AESDecrypt makes of raw, the decrypted blocks: EVP_DecryptUpdate
\* writes all of them but the last, EVP_DecryptFinal_ex the last without its
\* pad padding bytes, or nothing when the padding is malformed (pad = 0)
Unpad(raw, pad) ==
    IF pad = 0
    THEN [err |-> "InternalLogic", textout |-> Slice(raw, 0, BLen(raw) - AES_BLOCK_SIZE)]
    ELSE [err |-> "None", textout |-> Slice(raw, 0, BLen(raw) - pad)]

\* AESDecrypt without the check of textlen
AESDecryptAnyLength(key, keyLen, iv, textin, garble) ==
    IF ~(keyLen = 16 \/ keyLen = 32)
    THEN [err |-> "InternalLogic", textout |-> <<>>]
    ELSE Unpad(EvpAesCbcDecryptRaw(Slice(key, 0, keyLen), iv, textin),
               PadLenOf(EvpAesCbcDecryptRaw(Slice(key, 0, keyLen), iv, textin), garble))

\* AESDecrypt: the bytes written to textout (outLen is their number);
\* garble is what the final block's check finds when the decrypted bytes are
\* unrelated to anything
AESDecrypt(key, keyLen, iv, textin, garble) ==
    IF BLen(textin) % 16 # 0 \/ ~(keyLen = 16 \/ keyLen = 32)
    THEN [err |-> "InternalLogic", textout |-> <<>>]
    ELSE Unpad(EvpAesCbcDecryptRaw(Slice(key, 0, keyLen), iv, textin),
               PadLenOf(EvpAesCbcDecryptRaw(Slice(key, 0, keyLen), iv, textin), garble))

\* the IV of AESV2 is ComputeMD5(documentId); the IV of AESV3 is 16 draws
generateInitialVector(e, c, rng) ==
    IF e.Algorithm = "AESV2" THEN MD5(c.documentId)
    ELSE RandBytes(rng.seed, rng.n, 1, AES_IV_LENGTH)

\* the virtual Encrypt: the bytes written to outStr
Encrypt(e, c, objref, inStr, outLen, rng, rc4) ==
    LET k == CreateObjKey(e, c.encryptionKey, objref)
        iv == generateInitialVector(e, c, rng)
        aes == IF e.Algorithm = "AESV2"
               THEN AESEncrypt(k.objkey, k.keylen, iv, inStr)
               ELSE AESEncrypt(c.encryptionKey, GetKeyLengthBytes(e), iv, inStr)
    IN IF IsRC4(e)
       THEN IF BLen(inStr) # outLen THEN [err |-> "InternalLogic", out |-> <<>>]
            ELSE IF ~rc4 THEN [err |-> "AssertionFailed", out |-> <<>>]
            ELSE [err |-> "None", out |-> RC4Encrypt(k.objkey, k.keylen, inStr)]
       ELSE [err |-> aes.err, out |-> Cat(iv, aes.textout)]

\* out, resized to size, after Encrypt or Decrypt wrote r.out at its start,
\* and how many bytes that was (out holds the first size of them)
Written(size, r) ==
    [err |-> r.err,
     out |-> Slice(Cat(r.out, Zeros(size)), 0, size),
     written |-> BLen(r.out)]

\* PdfEncrypt::EncryptTo: out, and how many of its bytes Encrypt wrote
EncryptTo(e, c, objref, view, rng, rc4) ==
    IF ~e.initialized
    THEN [err |-> "AssertionFailed", out |-> <<>>, written |-> 0]
    ELSE Written(CalculateStreamLength(e, BLen(view)),
                 Encrypt(e, c, objref, view, CalculateStreamLength(e, BLen(view)), rng, rc4))

\* the virtual Decrypt: the bytes written to outStr (outLen is their number)
Decrypt(e, c, objref, inStr, outLen, garble, rc4) ==
    LET k == CreateObjKey(e, c.encryptionKey, objref)
        offset == CalculateStreamOffset(e)
        iv == Slice(inStr, 0, offset)
        textin == Slice(inStr, offset, BLen(inStr) - offset)
        aes == IF e.Algorithm = "AESV2"
               THEN AESDecrypt(k.objkey, k.keylen, iv, textin, garble)
               ELSE AESDecrypt(c.encryptionKey, GetKeyLengthBytes(e), iv, textin, garble)
    IN IF IsRC4(e)
       THEN Encrypt(e, c, objref, inStr, outLen, [seed |-> 0, n |-> 0], rc4)
       ELSE IF BLen(inStr) <= offset
       THEN [err |-> "None", out |-> <<>>]
       ELSE [err |-> aes.err, out |-> aes.textout]

\* A size_t is four 16-bit limbs, least significant first: arithmetic on
\* it is arithmetic modulo 2^64.
Limb == 2 ^ 16

RECURSIVE AddLimbs(_, _, _, _)
AddLimbs(a, b, k, carry) ==
    IF k > 4 THEN <<>>
    ELSE <<(a[k] + b[k] + carry) % Limb>>
             \o AddLimbs(a, b, k + 1, (a[k] + b[k] + carry) \div Limb)

RECURSIVE SubLimbs(_, _, _, _)
SubLimbs(a, b, k, borrow) ==
    IF k > 4 THEN <<>>
    ELSE <<(a[k] - b[k] - borrow + Limb) % Limb>>
             \o SubLimbs(a, b, k + 1, IF a[k] - b[k] - borrow < 0 THEN 1 ELSE 0)

AddSizeT(a, b) == AddLimbs(a, b, 1, 0)

SubSizeT(a, b) == SubLimbs(a, b, 1, 0)

\* the size_t of a number of bytes; a difference of two sizes that is below
\* zero is the size_t that much below 2^64
ToSizeT(v) ==
    IF v >= 0 THEN <<v % Limb, v \div Limb, 0, 0>>
    ELSE SubSizeT(<<0, 0, 0, 0>>, <<(-v) % Limb, (-v) \div Limb, 0, 0>>)

\* the number of bytes of a size_t below 2^32
FromSizeT(a) == a[1] + Limb * a[2]

\* a size a std::vector<char> can take: resize throws std::length_error
\* above max_size(), 2^63 - 1
FitsVector(a) == a[4] < Limb \div 2

\* out.resize(outBufferLen) in place of the padded size
FirstResizeUnpadded(outBufferLen) == ToSizeT(outBufferLen)

\* the size out.resize(outBufferLen + 16 - (outBufferLen % 16)) gives out,
\* outBufferLen being the size_t view.size() - CalculateStreamOffset()
FirstResize(outBufferLen) ==
    SubSizeT(AddSizeT(ToSizeT(outBufferLen), ToSizeT(16)),
             ToSizeT(ToSizeT(outBufferLen)[1] % 16))

\* the end of DecryptTo without out.resize(outBufferLen)
ResizedNot(w) == w

\* the end of DecryptTo: out is resized to the outLen Decrypt set when
\* Decrypt returned, and left as Decrypt left it when Decrypt raised
Resized(w) ==
    IF w.err = "None"
    THEN [err |-> "None", out |-> Slice(w.out, 0, w.written), written |-> w.written]
    ELSE w

\* PdfEncrypt::DecryptTo: out, and how many of its bytes Decrypt wrote
DecryptTo(e, c, objref, view, garble, rc4) ==
    IF ~e.initialized
    THEN [err |-> "AssertionFailed", out |-> <<>>, written |-> 0]
    ELSE IF ~FitsVector(FirstResize(BLen(view) - CalculateStreamOffset(e)))
    THEN [err |-> "LengthError", out |-> <<>>, written |-> 0]
    ELSE Resized(Written(FromSizeT(FirstResize(BLen(view) - CalculateStreamOffset(e))),
                         Decrypt(e, c, objref, view,
                                 BLen(view) - CalculateStreamOffset(e), garble, rc4)))

(***************************************************************************)
(* PdfRC4Stream and the RC4 stream adapters.                               *)
(***************************************************************************)
\* PdfRC4Stream(rc4key, rc4last, key, keylen): the stream (its table and
\* the number of key-stream bytes it has used) and the cache after it
PdfRC4Stream(cache, key, keylen) ==
    IF Slice(key, 0, keylen) # Slice(cache.Rc4key, 0, keylen)
    THEN [stream |-> [rc4 |-> KSA(Slice(key, 0, keylen)), pos |-> 0],
          cache |-> [Rc4key |-> Overwrite(cache.Rc4key, 0, Slice(key, 0, keylen)),
                     Rc4last |-> KSA(Slice(key, 0, keylen))]]
    ELSE [stream |-> [rc4 |-> cache.Rc4last, pos |-> 0], cache |-> cache]

\* PdfRC4Stream::Encrypt: the buffer after the call
RC4StreamEncrypt(stream, buffer) == XorKs(buffer, stream.rc4, {0}, stream.pos)

\* A stream adapter.  An output adapter: plain holds the bytes written to
\* it, data the bytes it wrote to the stream it wraps.  An input adapter:
\* data holds the bytes left in the stream it wraps, plain the bytes it has
\* returned, eof the flag of its last read.  kind tells PdfRC4OutputStream
\* and PdfRC4InputStream ("rc4": rc4 and pos are m_stream) from
\* PdfAESInputStream ("aes": init, inputEof, key, keyLen, drainLeft and
\* temp are its members, iv and fed the state of its cipher handle: the IV
\* and the ciphertext given to EVP_DecryptUpdate so far).  calls counts the
\* writes or reads made on it, raised tells that one of them raised; wrote
\* and wroteRef tell what the stream an input adapter wraps was made from:
\* the plaintext, and the object it was encrypted for.
NoStream ==
    [open |-> FALSE, kind |-> "none", objref |-> [n |-> 0, g |-> 0],
     plain |-> <<>>, data |-> <<>>, eof |-> FALSE,
     rc4 |-> <<"ksa", <<>>>>, pos |-> 0, inputLen |-> 0,
     init |-> FALSE, inputEof |-> FALSE, key |-> <<>>, keyLen |-> 0,
     iv |-> <<>>, fed |-> <<>>, drainLeft |-> 0, temp |-> <<>>,
     calls |-> 0, raised |-> FALSE, wrote |-> <<>>, wroteRef |-> [n |-> 0, g |-> 0]]

\* the adapter made around the PdfRC4Stream s, and the context it leaves
RC4Adapter(cc, s, objref, inputLen, data) ==
    [err |-> "None",
     ctx |-> [cc EXCEPT !.customCtx = <<s.cache>>],
     stream |-> [NoStream EXCEPT !.open = TRUE, !.kind = "rc4", !.objref = objref,
                                 !.rc4 = s.stream.rc4, !.pos = s.stream.pos,
                                 !.inputLen = inputLen, !.data = data]]

\* PdfRC4OutputStream / PdfRC4InputStream on the scratch state of cc
NewRC4Adapter(cc, k, objref, inputLen, data) ==
    RC4Adapter(cc, PdfRC4Stream(cc.customCtx[1], k.objkey, k.keylen),
               objref, inputLen, data)

\* PdfAESInputStream(inputStream, inputLen, key, keylen)
PdfAESInputStream(c, key, keylen, objref, inputLen, data) ==
    [err |-> "None",
     ctx |-> c,
     stream |-> [NoStream EXCEPT !.open = TRUE, !.kind = "aes", !.objref = objref,
                                 !.inputLen = inputLen, !.data = data,
                                 !.init = TRUE, !.key = Slice(key, 0, keylen),
                                 !.keyLen = keylen]]

\* the virtual CreateEncryptionOutputStream: the adapter, and the context
\* after the call
CreateEncryptionOutputStream(e, c, objref) ==
    IF IsRC4(e)
    THEN NewRC4Adapter(GetCustomCtx(c), CreateObjKey(e, c.encryptionKey, objref),
                       objref, 0, <<>>)
    ELSE [err |-> "InternalLogic", ctx |-> c, stream |-> NoStream]

\* the virtual CreateEncryptionInputStream on a stream holding data
CreateEncryptionInputStream(e, c, objref, inputLen, data) ==
    IF IsRC4(e)
    THEN NewRC4Adapter(GetCustomCtx(c), CreateObjKey(e, c.encryptionKey, objref),
                       objref, inputLen, data)
    ELSE IF e.Algorithm = "AESV2"
    THEN PdfAESInputStream(c, CreateObjKey(e, c.encryptionKey, objref).objkey,
                           CreateObjKey(e, c.encryptionKey, objref).keylen,
                           objref, inputLen, data)
    ELSE PdfAESInputStream(c, c.encryptionKey, 32, objref, inputLen, data)

\* PdfRC4OutputStream::writeBuffer
writeBuffer(stream, buffer) ==
    [stream EXCEPT !.plain = Cat(@, buffer),
                   !.data = Cat(@, RC4StreamEncrypt(stream, buffer)),
                   !.pos = @ + BLen(buffer),
                   !.calls = @ + 1]

\* InputStream::ReadBuffer on a stream holding data: the bytes read, the
\* bytes left, and whether the stream is at its end
ReadBuffer(data, size) ==
    [buffer |-> Slice(data, 0, size),
     rest |-> Slice(data, size, BLen(data) - size),
     eof |-> BLen(data) <= size]

\* std::min(size, m_inputLen), m_inputLen being a size_t: a negative number
\* here is that much below 2^64
MinLen(size, inputLen) == IF inputLen < 0 THEN size ELSE Min(size, inputLen)

\* what PdfRC4InputStream::readBuffer does with r, the outcome of ReadBuffer
RC4Read(stream, r) ==
    [err |-> "None",
     stream |-> [stream EXCEPT
                    !.data = r.rest,
                    !.inputLen = @ - BLen(r.buffer),
                    !.pos = @ + BLen(r.buffer),
                    !.plain = Cat(@, RC4StreamEncrypt(stream, r.buffer)),
                    !.eof = r.eof \/ stream.inputLen - BLen(r.buffer) = 0,
                    !.calls = @ + 1],
     count |-> BLen(r.buffer)]

\* PdfRC4InputStream::readBuffer(buffer, size, eof)
RC4readBuffer(stream, size) ==
    RC4Read(stream, ReadBuffer(stream.data, MinLen(size, stream.inputLen)))

\* the bytes EVP_DecryptUpdate has written when t bytes of ciphertext were
\* given to it: every whole block but the last one given
Emitted(t) ==
    IF t = 0 THEN 0 ELSE AES_BLOCK_SIZE * ((t - 1) \div AES_BLOCK_SIZE)

\* what the whole blocks given to the cipher handle of s decrypt to
Decrypted(s) ==
    EvpAesCbcDecryptRaw(s.key, s.iv,
        Slice(s.fed, 0, AES_BLOCK_SIZE * (BLen(s.fed) \div AES_BLOCK_SIZE)))

\* a read that raises: the adapter as the read leaves it
Raised(s, error) ==
    [err |-> error,
     stream |-> [s EXCEPT !.raised = TRUE, !.calls = @ + 1],
     count |-> 0]

\* a read that returns out with eof false
Returned(s, out) ==
    [err |-> "None",
     stream |-> [s EXCEPT !.plain = Cat(@, out), !.eof = FALSE, !.calls = @ + 1],
     count |-> BLen(out)]

\* DrainBuffer, drainLen being std::min(len - outlen, m_drainLeft): the
\* first drainLen bytes of m_tempBuffer follow out, the outlen bytes that
\* EVP_DecryptUpdate gave
Drained(s, out, drainLen) ==
    [err |-> "None",
     stream |-> [s EXCEPT !.plain = Cat(@, Cat(out, Slice(s.temp, 0, drainLen))),
                          !.drainLeft = @ - drainLen,
                          !.eof = (s.drainLeft - drainLen = 0),
                          !.calls = @ + 1],
     count |-> BLen(out) + drainLen]

DrainBuffer(s, len, out) == Drained(s, out, Min(len - BLen(out), s.drainLeft))

\* EVP_DecryptFinal_ex found pad bytes of padding (0: malformed): the rest
\* of the last block is written to m_tempBuffer
Finalized(s, len, out, pad) ==
    IF pad = 0 THEN Raised(s, "InternalLogic")
    ELSE DrainBuffer([s EXCEPT !.temp = Slice(Decrypted(s), BLen(s.fed) - AES_BLOCK_SIZE,
                                              AES_BLOCK_SIZE - pad),
                               !.drainLeft = AES_BLOCK_SIZE - pad],
                     len, out)

\* m_inputEof = true; EVP_DecryptFinal_ex: it fails when the ciphertext
\* given does not end with a whole block
Finalize(s, len, out, garble) ==
    IF BLen(s.fed) % AES_BLOCK_SIZE # 0 \/ s.fed = <<>>
    THEN Raised(s, "InternalLogic")
    ELSE Finalized(s, len, out, PadLenOf(Decrypted(s), garble))

\* after EVP_DecryptUpdate, which had given out before bytes before it
Updated(s, len, before, streameof, garble) ==
    IF Emitted(BLen(s.fed)) - before > len
    THEN Raised(s, "AssertionFailed")
    ELSE IF s.inputLen = 0 \/ streameof
    THEN Finalize([s EXCEPT !.inputEof = TRUE], len,
                  Slice(Decrypted(s), before, Emitted(BLen(s.fed)) - before), garble)
    ELSE Returned(s, Slice(Decrypted(s), before, Emitted(BLen(s.fed)) - before))

\* the second ReadBuffer of readBuffer gave r, and EVP_DecryptUpdate is
\* given what it read
Update(s, len, r, garble) ==
    Updated([s EXCEPT !.data = r.rest,
                      !.inputLen = @ - BLen(r.buffer),
                      !.fed = Cat(@, r.buffer)],
            len, Emitted(BLen(s.fed)), r.eof, garble)

ReadOn(s, len, garble) ==
    Update(s, len, ReadBuffer(s.data, MinLen(len, s.inputLen)), garble)

\* m_init: the first ReadBuffer gave r, the IV
ReadIV(s, len, r, garble) ==
    IF BLen(r.buffer) # AES_IV_LENGTH
    THEN Raised([s EXCEPT !.data = r.rest], "UnexpectedEOF")
    ELSE IF ~(s.keyLen = 16 \/ s.keyLen = 32)
    THEN Raised([s EXCEPT !.data = r.rest], "InternalLogic")
    ELSE ReadOn([s EXCEPT !.data = r.rest, !.iv = r.buffer,
                          !.inputLen = @ - AES_IV_LENGTH, !.init = FALSE],
                len, garble)

\* PdfAESInputStream::readBuffer(buffer, len, eof); garble is what the check
\* of the final block finds when the decrypted bytes are unrelated to
\* anything
AESreadBuffer(s, len, garble) ==
    IF s.inputEof THEN DrainBuffer(s, len, <<>>)
    ELSE IF s.init THEN ReadIV(s, len, ReadBuffer(s.data, AES_IV_LENGTH), garble)
    ELSE ReadOn(s, len, garble)

\* the virtual readBuffer of an input adapter
readBuffer(s, len, garble) ==
    IF s.kind = "rc4" THEN RC4readBuffer(s, len) ELSE AESreadBuffer(s, len, garble)

(***************************************************************************)
(* The handlers of PdfEncrypt that work on a context: what each leaves.    *)
(***************************************************************************)
\* what EnsureEncryptionInitialized does with g, the outcome of
\* GenerateEncryptionKey
Initialize(e, c, documentId, generator, now, g) ==
    IF g.err # "None"
    THEN [err |-> g.err, enc |-> g.enc,
          ctx |-> [GetCryptCtx(c) EXCEPT !.encryptionKey = g.encryptionKey],
          rng |-> generator]
    ELSE [err |-> "None",
          enc |-> [clearSensitiveInfo(g.enc) EXCEPT !.initialized = TRUE],
          ctx |-> [GetCryptCtx(c) EXCEPT !.encryptionKey = g.encryptionKey,
                                         !.documentId = documentId,
                                         !.AuthResult = "Owner"],
          rng |-> IF IsAESV3(e) THEN [seed |-> now, n |-> g.draws] ELSE generator]

\* EnsureEncryptionInitialized without the test of m_initialized
EnsureEncryptionInitializedAgain(e, c, documentId, generator, now, rc4) ==
    Initialize(e, c, documentId, generator, now,
               GenerateEncryptionKey(e, documentId, c.encryptionKey, now, rc4))

\* PdfEncrypt::EnsureEncryptionInitialized, time(nullptr) being now
EnsureEncryptionInitialized(e, c, documentId, generator, now, rc4) ==
    IF e.initialized
    THEN [err |-> IF IsAuthenticated(c) THEN "None" ELSE "InternalLogic",
          enc |-> e, ctx |-> c, rng |-> generator]
    ELSE Initialize(e, c, documentId, generator, now,
                    GenerateEncryptionKey(e, documentId, c.encryptionKey, now, rc4))

\* a failed authentication recorded as no authentication at all
SetAuthResultForgetsFailure(c, documentId, a) ==
    IF a.err # "None"
    THEN [err |-> a.err,
          ctx |-> [GetCryptCtx(c) EXCEPT !.encryptionKey = a.encryptionKey]]
    ELSE [err |-> "None",
          ctx |-> [GetCryptCtx(c) EXCEPT !.encryptionKey = a.encryptionKey,
                                         !.AuthResult = IF a.ret = "Failed" THEN "Unknown"
                                                        ELSE a.ret,
                                         !.documentId = documentId]]

\* what PdfEncrypt::Authenticate does with a, the outcome of the virtual
\* Authenticate
SetAuthResult(c, documentId, a) ==
    IF a.err # "None"
    THEN [err |-> a.err,
          ctx |-> [GetCryptCtx(c) EXCEPT !.encryptionKey = a.encryptionKey]]
    ELSE [err |-> "None",
          ctx |-> [GetCryptCtx(c) EXCEPT !.encryptionKey = a.encryptionKey,
                                         !.AuthResult = a.ret,
                                         !.documentId = documentId]]

\* PdfEncrypt::Authenticate(password, documentId, context)
Authenticate(e, c, password, documentId, rc4) ==
    SetAuthResult(c, documentId,
                  AuthenticateImpl(e, password, documentId, c.encryptionKey, rc4))

(***************************************************************************)
(* The state of a session: one descriptor, one context, one document.      *)
(***************************************************************************)
VARIABLES
    enc,      \* the descriptor in use (NoEnc: none has been made)
    ctx,      \* the PdfEncryptContext of the session
    rng,      \* the C library's generator: its seed and the draws made
    hasRc4,   \* ssl::Rc4() != nullptr
    call,     \* the last call made: its name and arguments
    err,      \* the error kind the last call raised, "None" when it returned
    made,     \* the passwords the descriptor was created with and the
              \* encryption key its creation produced
    dict,     \* the dictionary last written or parsed
    src,      \* how enc was made, and the descriptor it was made from
    io,       \* the buffers of the last EncryptTo / DecryptTo
    ostream,  \* the encryption output stream and its sink
    istream,  \* the encryption input stream and its source
    contexts  \* the contexts a program makes, copies, assigns and destroys,
              \* and the cipher handles they hold

vars == <<enc, ctx, rng, hasRc4, call, err, made, dict, src, io, ostream, istream, contexts>>

\* the contexts of a program and the cipher handles made
MaxContexts == 3

MaxHandles == 3

ContextIds == 1..MaxContexts

\* life: "none" before construction, "live", "dead" after destruction; ctx:
\* the members; handle: the handle m_cryptCtx points to (0: nullptr);
\* created: for every handle EVP_CIPHER_CTX_new returned, the context that
\* called it; released: the calls of EVP_CIPHER_CTX_free on a handle, each
\* with the context that made it; last: the last operation and its context
NoContexts ==
    [life |-> [i \in ContextIds |-> "none"],
     ctx |-> [i \in ContextIds |-> NewContext],
     handle |-> [i \in ContextIds |-> 0],
     created |-> <<>>,
     released |-> <<>>,
     last |-> <<"none", 0>>]

\* the /ID of the document
DocumentId == Lit(<<100, 111, 99>>)

UserPasswords == {<<>>, <<117>>}

\* "u", "o", a control character, and "u" followed by a soft hyphen
OwnerPasswords == {<<117>>, <<111>>, <<7>>, <<117, 194, 173>>}

\* the candidates given to Authenticate
Passwords == UserPasswords \cup OwnerPasswords

\* PdfPermissions: none, and Print | HighPrint
Protections == {<<0, 0, 0, 0>>, <<4, 8, 0, 0>>}

Algorithms == {"RC4V1", "RC4V2", "AESV2", "AESV3R5", "AESV3R6"}

\* PdfKeyLength: Unknown, L40, L128, L256
KeyLengths == {0, 40, 128, 256}

\* the values time(nullptr) takes
NumTimes == 2

TimeValues == 1..NumTimes

NoDict == [EmptyDict EXCEPT !.Filter = Name("")]

NoIo == [view |-> <<>>, out |-> <<>>, written |-> 0, objref |-> [n |-> 0, g |-> 0]]

NoCall == [op |-> "none", arg |-> <<>>]

Init ==
    /\ enc = NoEnc
    /\ ctx = NewContext
    /\ rng = [seed |-> 1, n |-> 0]
    /\ hasRc4 \in BOOLEAN
    /\ call = NoCall
    /\ err = "None"
    /\ made = [userPassword |-> <<>>, ownerPassword |-> <<>>, key |-> <<>>]
    /\ dict = NoDict
    /\ src = [how |-> "none", enc |-> NoEnc]
    /\ io = NoIo
    /\ ostream = NoStream
    /\ istream = NoStream
    /\ contexts = NoContexts

\* PdfEncrypt::Create, once in a session
DoCreate(userPassword, ownerPassword, protection, algorithm, keyLength) ==
    /\ enc = NoEnc
    /\ src.how = "none"
    /\ call' = [op |-> "Create", arg |-> <<algorithm, keyLength>>]
    /\ \E r \in {Create(userPassword, ownerPassword, protection, algorithm, keyLength, hasRc4)} :
        /\ err' = r.err
        /\ enc' = r.enc
        /\ made' = IF r.err = "None"
                   THEN [made EXCEPT !.userPassword = userPassword,
                                     !.ownerPassword = ownerPassword]
                   ELSE made
        /\ src' = IF r.err = "None" THEN [how |-> "created", enc |-> NoEnc] ELSE src
    /\ UNCHANGED <<contexts, ctx, rng, hasRc4, dict, io, ostream, istream>>

DoEnsureEncryptionInitialized(now) ==
    /\ enc # NoEnc
    /\ call' = [op |-> "EnsureEncryptionInitialized", arg |-> <<enc.initialized>>]
    /\ \E r \in {EnsureEncryptionInitialized(enc, ctx, DocumentId, rng, now, hasRc4)} :
        /\ err' = r.err
        /\ enc' = r.enc
        /\ ctx' = r.ctx
        /\ rng' = r.rng
        /\ made' = IF r.err = "None" /\ ~enc.initialized
                   THEN [made EXCEPT !.key = Slice(r.ctx.encryptionKey, 0, GetKeyLengthBytes(enc))]
                   ELSE made
    /\ UNCHANGED <<contexts, hasRc4, dict, src, io, ostream, istream>>

\* the callers authenticate against a descriptor that holds credentials
DoAuthenticate(password) ==
    /\ enc.initialized
    /\ call' = [op |-> "Authenticate", arg |-> <<password>>]
    /\ \E r \in {Authenticate(enc, ctx, password, DocumentId, hasRc4)} :
        /\ err' = r.err
        /\ ctx' = r.ctx
    /\ UNCHANGED <<contexts, enc, rng, hasRc4, made, dict, src, io, ostream, istream>>

DoCreateEncryptionDictionary ==
    /\ enc.initialized
    /\ call' = [op |-> "CreateEncryptionDictionary", arg |-> <<>>]
    /\ err' = "None"
    /\ dict' = CreateEncryptionDictionary(enc)
    /\ UNCHANGED <<contexts, enc, ctx, rng, hasRc4, made, src, io, ostream, istream>>

\* PdfEncrypt::CreateFromObject on dictionary; written says that dictionary
\* is the one CreateEncryptionDictionary wrote for enc
DoCreateFromObject(dictionary, written) ==
    /\ call' = [op |-> "CreateFromObject", arg |-> <<written>>]
    /\ dict' = dictionary
    /\ \E r \in {CreateFromObject(dictionary, hasRc4)} :
        /\ err' = r.err
        /\ enc' = IF r.err = "None" THEN r.enc ELSE enc
        /\ src' = IF r.err # "None" THEN src
                  ELSE IF written THEN [how |-> "reparsed", enc |-> enc]
                  ELSE [how |-> "parsed", enc |-> NoEnc]
    /\ UNCHANGED <<contexts, ctx, rng, hasRc4, made, io, ostream, istream>>

\* opening the document that was written: CreateFromObject on dict
DoReparse ==
    /\ call.op = "CreateEncryptionDictionary"
    /\ DoCreateFromObject(dict, TRUE)

\* PdfEncrypt::CreateFromEncrypt(enc); the copy replaces enc.  fill says
\* what the memory the copy constructor leaves uninitialised holds.
DoCreateFromEncrypt(fill) ==
    /\ enc.initialized
    /\ src.how \in {"created", "parsed"}
    /\ call' = [op |-> "CreateFromEncrypt", arg |-> <<>>]
    /\ \E r \in {CreateFromEncrypt(enc, Indeterminate(Slice(enc.ueValue, 16, 16), fill),
                                    Indeterminate(Slice(enc.oeValue, 16, 16), fill))} :
        /\ err' = r.err
        /\ enc' = r.enc
    /\ src' = [how |-> "copied", enc |-> enc]
    /\ UNCHANGED <<contexts, ctx, rng, hasRc4, made, dict, io, ostream, istream>>

Next ==
    \/ \E u \in UserPasswords, o \in OwnerPasswords, p \in Protections,
          a \in Algorithms, k \in KeyLengths : DoCreate(u, o, p, a, k)
    \/ \E now \in TimeValues : DoEnsureEncryptionInitialized(now)
    \/ \E password \in Passwords : DoAuthenticate(password)
    \/ DoCreateEncryptionDictionary
    \/ DoReparse
    \/ \E fill \in Fills : DoCreateFromEncrypt(fill)

Spec == Init /\ [][Next]_vars

(***************************************************************************)
(* Opening a document: the session starts from the encryption dictionary   *)
(* of the document, which CreateFromObject parses.                         *)
(***************************************************************************)
\* the largest V and R of the dictionaries opened
MaxVersion == 6

MaxRevision == 7

Versions == 1..MaxVersion

Revisions == 2..MaxRevision

\* the CFM of the stream filter; "" is a dictionary without crypt filters
CfmNames == {"", "V2", "AESV2", "AESV3"}

\* n bytes that differ from each other, the first being first
Bytes(n, first) == Lit([i \in 1..n |-> first + i - 1])

\* a dictionary with every entry the parser reads, none too short
StdDict(v, r, cfm) ==
    [EmptyDict EXCEPT
        !.Filter = Name("Standard"), !.V = Num(v), !.R = Num(r), !.P = Num(61632),
        !.O = Str(Bytes(48, 1)), !.U = Str(Bytes(48, 101)),
        !.OE = Str(Bytes(32, 51)), !.UE = Str(Bytes(32, 151)),
        !.Perms = Str(Bytes(16, 201)),
        !.CF = IF cfm = "" THEN Null ELSE Dict([StdCF |-> Dict([CFM |-> Name(cfm)])]),
        !.StmF = IF cfm = "" THEN Null ELSE Name("StdCF"),
        !.StrF = IF cfm = "" THEN Null ELSE Name("StdCF")]

\* every V, R and CFM, and the dictionaries with another or no Filter
SelectionDocuments ==
    {StdDict(v, r, cfm) : v \in Versions, r \in Revisions, cfm \in CfmNames}
        \cup {[StdDict(1, 2, "") EXCEPT !.Filter = f] : f \in {Null, Name("Other")}}

\* the V, R and CFM that documents are written with
WrittenWith ==
    {<<1, 2, "">>, <<1, 3, "">>, <<2, 3, "">>, <<4, 4, "V2">>, <<4, 4, "AESV2">>,
     <<5, 5, "AESV3">>, <<5, 6, "AESV3">>}

\* the lengths of O and U, of OE and UE, and of Perms
CredentialSizes == {31, 32, 33, 47, 48, 49}

KeySizes == {31, 32, 33}

PermsSizes == {15, 16, 17}

SizeDocuments ==
    UNION {
        {[StdDict(w[1], w[2], w[3]) EXCEPT !.O = Str(Bytes(n, 1))] : n \in CredentialSizes}
        \cup {[StdDict(w[1], w[2], w[3]) EXCEPT !.U = Str(Bytes(n, 101))] : n \in CredentialSizes}
        \cup {[StdDict(w[1], w[2], w[3]) EXCEPT !.OE = Str(Bytes(n, 51))] : n \in KeySizes}
        \cup {[StdDict(w[1], w[2], w[3]) EXCEPT !.UE = Str(Bytes(n, 151))] : n \in KeySizes}
        \cup {[StdDict(w[1], w[2], w[3]) EXCEPT !.Perms = Str(Bytes(n, 201))] : n \in PermsSizes}
        : w \in WrittenWith}

\* the EncryptMetadata and Length entries: absent, and of each kind
MetadataEntries == {Null, Bool(TRUE), Bool(FALSE), Name("true")}

LengthEntries == {Null, Num(40), Num(44), Num(128)}

MetadataDocuments ==
    {[StdDict(w[1], w[2], w[3]) EXCEPT !.EncryptMetadata = m, !.Length = l] :
        w \in WrittenWith, m \in MetadataEntries, l \in LengthEntries}

\* nobody knows a password of a dictionary that was not written with one
Unprotected(dictionary) ==
    [dictionary |-> dictionary,
     made |-> [userPassword |-> <<>>, ownerPassword |-> <<>>, key |-> <<>>]]

\* the document that a session which ended with r, the outcome of
\* EnsureEncryptionInitialized, wrote
WrittenBy(r, userPassword, ownerPassword) ==
    [dictionary |-> CreateEncryptionDictionary(r.enc),
     made |-> [userPassword |-> userPassword, ownerPassword |-> ownerPassword,
               key |-> Slice(r.ctx.encryptionKey, 0, GetKeyLengthBytes(r.enc))]]

\* the document protected with the two passwords under algorithm
Protected(algorithm, userPassword, ownerPassword) ==
    WrittenBy(
        EnsureEncryptionInitialized(
            Create(userPassword, ownerPassword, <<4, 8, 0, 0>>, algorithm, 0, TRUE).enc,
            NewContext, DocumentId, [seed |-> 1, n |-> 0], 1, TRUE),
        userPassword, ownerPassword)

\* the pairs of passwords documents are protected with
PasswordPairs == {<<<<>>, <<111>>>>, <<<<117>>, <<117>>>>}

ProtectedDocuments ==
    {Protected(a, pp[1], pp[2]) : a \in Algorithms, pp \in PasswordPairs}

\* the bytes of U that a damaged document has changed
DamagedAt == {0, 4, 5, 15, 16, 31}

\* document with byte k of its U replaced
Damaged(document, k) ==
    [document EXCEPT !.dictionary.U = Str(Overwrite(@[2], k, Sym(<<"damaged">>, 1)))]

DamagedDocuments ==
    {Damaged(Protected(a, <<>>, <<111>>), k) : a \in Algorithms, k \in DamagedAt}

\* the permissions the protected documents are written with, and the same
\* with the Modify and Copy bits set by somebody else
WrittenPermissions == Or32(PERMS_DEFAULT, <<4, 8, 0, 0>>)

TamperedPermissions == Or32(WrittenPermissions, <<24, 0, 0, 0>>)

\* document with its P entry replaced and nothing else
Tampered(document) ==
    [document EXCEPT !.dictionary.P =
        <<"num", TamperedPermissions \o <<255, 255, 255, 255>>>>]

TamperedDocuments ==
    {Tampered(Protected(a, pp[1], pp[2])) : a \in Algorithms, pp \in PasswordPairs}

Documents ==
    {Unprotected(d) : d \in SelectionDocuments \cup SizeDocuments \cup MetadataDocuments}
        \cup ProtectedDocuments \cup DamagedDocuments \cup TamperedDocuments

InitParse ==
    /\ enc = NoEnc
    /\ ctx = NewContext
    /\ rng = [seed |-> 1, n |-> 0]
    /\ hasRc4 \in BOOLEAN
    /\ call = NoCall
    /\ err = "None"
    /\ \E document \in Documents :
        /\ made = document.made
        /\ dict = document.dictionary
    /\ src = [how |-> "none", enc |-> NoEnc]
    /\ io = NoIo
    /\ ostream = NoStream
    /\ istream = NoStream
    /\ contexts = NoContexts

\* the document is opened once: CreateFromObject on its dictionary
DoOpen ==
    /\ call = NoCall
    /\ DoCreateFromObject(dict, FALSE)

NextParse ==
    \/ DoOpen
    \/ \E password \in Passwords : DoAuthenticate(password)
    \/ DoCreateEncryptionDictionary
    \/ DoReparse

SpecParse == InitParse /\ [][NextParse]_vars

(***************************************************************************)
(* Properties of the session.                                              *)
(***************************************************************************)
\* the last call was Authenticate with password, on the descriptor that
\* Create made and EnsureEncryptionInitialized initialised
AuthenticatedCreated(password) ==
    /\ call.op = "Authenticate"
    /\ src.how = "created"
    /\ call.arg[1] = password

\* the form of a password the algorithm of enc works with
Normalized(password) ==
    IF IsAESV3(enc) THEN preprocessPassword(password).buf ELSE PadPassword(password)

\* C1 as stated: after Create and EnsureEncryptionInitialized, Authenticate
\* with userPassword yields User and Authenticate with ownerPassword yields
\* Owner
C1_AsStated ==
    /\ AuthenticatedCreated(made.userPassword)
            => err = "None" /\ ctx.AuthResult = "User"
    /\ AuthenticatedCreated(made.ownerPassword)
            => err = "None" /\ ctx.AuthResult = "Owner"

\* C1: after Create and EnsureEncryptionInitialized, Authenticate with
\* userPassword yields User; Authenticate with ownerPassword yields Owner
\* when the two passwords differ in the form the algorithm works with, and
\* User when they do not
C1_UserThenOwner ==
    /\ AuthenticatedCreated(made.userPassword)
            => err = "None" /\ ctx.AuthResult = "User"
    /\ AuthenticatedCreated(made.ownerPassword)
            => /\ err = "None"
               /\ ctx.AuthResult = IF Normalized(made.ownerPassword) = Normalized(made.userPassword)
                                   THEN "User" ELSE "Owner"

\* the owner password, different from the user's, authenticated as Owner
C1_Witness ==
    /\ AuthenticatedCreated(made.ownerPassword)
    /\ made.ownerPassword # made.userPassword
    /\ ctx.AuthResult = "Owner"

\* C3: an Authenticate call that leaves the context with result User or
\* Owner leaves in it the encryption key that key generation produced for
\* the descriptor; so the user and the owner branch recover the same key
C3_AsStated ==
    (call.op = "Authenticate" /\ err = "None" /\ IsAuthenticated(ctx))
        => Slice(ctx.encryptionKey, 0, GetKeyLengthBytes(enc)) = made.key

\* enc is an RC4 or AES-128 descriptor that Create made and
\* EnsureEncryptionInitialized initialised: its O entry is what ComputeOwnerKey
\* made in the encrypt direction of the padded passwords
GeneratedOwnerKey ==
    /\ enc.initialized
    /\ src.how = "created"
    /\ ~IsAESV3(enc)

\* what Authenticate recovers from the O entry of enc with the owner password
RecoveredUserPad ==
    ComputeOwnerKey(GetOValueRaw32(enc), PadPassword(made.ownerPassword),
                    GetKeyLengthBytes(enc), enc.rValue, TRUE)

\* C13: ComputeOwnerKey in the authenticate direction, applied to the O entry
\* the encrypt direction produced from a padded user password and an owner
\* password, gives back that padded user password, all 32 bytes of it
C13_OwnerKeyInverse ==
    GeneratedOwnerKey => RecoveredUserPad = PadPassword(made.userPassword)

\* a revision 3 descriptor with a user password, whose O entry is not the
\* padded user password and from which the owner password recovers it
C13_Witness ==
    /\ GeneratedOwnerKey
    /\ enc.rValue = 3
    /\ made.userPassword # <<>>
    /\ GetOValueRaw32(enc) # PadPassword(made.userPassword)
    /\ BLen(RecoveredUserPad) = 32
    /\ RecoveredUserPad = PadPassword(made.userPassword)

\* what the virtual Authenticate returns for password on the descriptor e
Outcome(e, password) ==
    AuthenticateImpl(e, password, DocumentId, Zeros(32), hasRc4)

\* C20 as stated: the descriptor CreateFromEncrypt returns equals the one it
\* copies, the 32 bytes of UE and of OE and the 16 bytes of Perms of an
\* AES-256 descriptor included, so that Authenticate on the copy returns the
\* result and the key it returns on the original
C20_AsStated ==
    /\ call.op = "CreateFromEncrypt" => err = "None" /\ enc = src.enc
    /\ src.how = "copied" =>
            \A password \in Passwords :
                /\ Outcome(enc, password).ret = Outcome(src.enc, password).ret
                /\ Outcome(enc, password).encryptionKey
                        = Outcome(src.enc, password).encryptionKey

\* one step of the authentication result of the context
AuthResultStep ==
    /\ ctx.AuthResult # "Unknown" => ctx'.AuthResult # "Unknown"
    /\ (call'.op = "Authenticate" /\ err' = "None")
            => ctx'.AuthResult \in {"Failed", "User", "Owner"}
    /\ ctx'.AuthResult # ctx.AuthResult =>
            \/ call'.op = "Authenticate"
            \/ /\ call'.op = "EnsureEncryptionInitialized"
               /\ ~enc.initialized /\ enc'.initialized /\ ~enc.IsParsed
               /\ ctx'.AuthResult = "Owner"

UserValidation(password) ==
    IF IsAESV3(enc)
    THEN CheckKeyLoop(computeHash(preprocessPassword(password).buf, enc.rValue,
                                  Slice(enc.uValue, 32, 8), <<>>),
                      enc.uValue, GetKeyLengthBytes(enc), 0, TRUE)
    ELSE CheckKeyLoop(ComputeEncryptionKey(DocumentId, PadPassword(password),
                                           GetOValueRaw32(enc), enc.pValue,
                                           GetKeyLengthBytes(enc), enc.rValue,
                                           enc.EncryptMetadata, Zeros(32)).userKey,
                      GetUValueRaw32(enc), GetKeyLengthBytes(enc), 0, TRUE)

\* C30 as stated: CheckKey compares the first keyLength bytes and no more,
\* and compares all keyLength of them on every call, a mismatch or none.
C30_AsStated ==
    (call.op = "Authenticate" /\ err = "None") =>
        UserValidation(call.arg[1]).compared = GetKeyLengthBytes(enc)

\* an Authenticate call has returned Failed
ReturnedFailed == call'.op = "Authenticate" /\ err' = "None" /\ ctx'.AuthResult = "Failed"

\* the context holds the key of the descriptor
HoldsKey(c) == Slice(c.encryptionKey, 0, GetKeyLengthBytes(enc)) = made.key

\* C27 as stated: an Authenticate call that returns Failed leaves the key
\* of the context as it was, for every algorithm.
C27_AsStated == [][ReturnedFailed => ctx'.encryptionKey = ctx.encryptionKey]_vars

\* the first keyLength bytes of the key an Authenticate call with password
\* leaves in a context that held no key
KeyOfCandidate(password) ==
    Slice(AuthenticateImpl(enc, password, DocumentId, Zeros(32), hasRc4).encryptionKey,
          0, GetKeyLengthBytes(enc))

FailedStep ==
    ReturnedFailed =>
        IF IsAESV3(enc) THEN ctx'.encryptionKey = ctx.encryptionKey
        ELSE Slice(ctx'.encryptionKey, 0, GetKeyLengthBytes(enc))
                = KeyOfCandidate(call'.arg[1])

\* C27: an Authenticate call that returns Failed leaves the key of the
\* context as it was when the algorithm is AES-256; with RC4 and AES-128
\* the first keyLength bytes of the key are, whatever they were before,
\* the key derived from the failed candidate.
C27_FailedKeepsKeyAESV3 == [][FailedStep]_vars

\* a failed Authenticate on an AES-256 context that holds the key
C27_Witness ==
    /\ call.op = "Authenticate"
    /\ err = "None"
    /\ ctx.AuthResult = "Failed"
    /\ IsAESV3(enc)
    /\ HoldsKey(ctx)
    /\ ctx.encryptionKey # Zeros(32)

InitializedStep ==
    (call'.op = "EnsureEncryptionInitialized" /\ enc.initialized) =>
        /\ enc' = enc
        /\ ctx'.encryptionKey = ctx.encryptionKey
        /\ ctx'.AuthResult = ctx.AuthResult
        /\ err' = IF IsAuthenticated(ctx) THEN "None" ELSE "InternalLogic"

\* C23: once a descriptor is initialised (parsed, or made from scratch and
\* initialised), every EnsureEncryptionInitialized call leaves its U, O, UE,
\* OE and Perms and the key and the result of the context as they were,
\* whether it returns (context authenticated) or raises InternalLogic
\* (context not authenticated)
C23_GeneratedOnce == [][InitializedStep]_vars

\* EnsureEncryptionInitialized raised InternalLogic on an initialised
\* descriptor whose context a failed Authenticate left with the key
C23_Witness ==
    /\ call.op = "EnsureEncryptionInitialized"
    /\ call.arg = <<TRUE>>
    /\ err = "InternalLogic"
    /\ ctx.AuthResult = "Failed"
    /\ enc.initialized
    /\ GetUValueRaw32(enc) # Zeros(32)

(***************************************************************************)
(* Properties of opening a document.                                       *)
(***************************************************************************)
\* the last call was the CreateFromObject that opened the document
Opened == call.op = "CreateFromObject" /\ call.arg = <<FALSE>>

DictV == Low8(Unsigned(dict.V))

DictR == Low8(Unsigned(dict.R))

\* the algorithm of the selection table: V, R and CFM exactly
TableAlgorithm ==
    IF DictV = 1 /\ DictR \in {2, 3} THEN "RC4V1"
    ELSE IF DictV = 2 /\ DictR = 3 /\ CfmName(dict) \in {"V2", ""} THEN "RC4V2"
    ELSE IF DictV = 4 /\ DictR = 4 /\ CfmName(dict) = "AESV2" THEN "AESV2"
    ELSE IF DictV = 5 /\ DictR = 5 THEN "AESV3R5"
    ELSE IF DictV = 5 /\ DictR = 6 THEN "AESV3R6"
    ELSE "None"

\* the algorithm of the rules taken in order: the two RC4 rules only with
\* RC4 enabled, CFM "V2" whatever V and R, V = 4 and R = 4 whatever the CFM
OrderedAlgorithm ==
    IF DictV = 1 /\ DictR \in {2, 3} /\ hasRc4 THEN "RC4V1"
    ELSE IF ((DictV = 2 /\ DictR = 3) \/ CfmName(dict) = "V2") /\ hasRc4 THEN "RC4V2"
    ELSE IF DictV = 4 /\ DictR = 4 THEN "AESV2"
    ELSE IF DictV = 5 /\ DictR = 5 THEN "AESV3R5"
    ELSE IF DictV = 5 /\ DictR = 6 THEN "AESV3R6"
    ELSE "None"

\* an entry of the dictionary is too short for algorithm
TooShort(algorithm) ==
    IF algorithm \in {"AESV3R5", "AESV3R6"}
    THEN \/ BLen(dict.O[2]) < 48 \/ BLen(dict.U[2]) < 48
         \/ BLen(dict.OE[2]) < 32 \/ BLen(dict.UE[2]) < 32
         \/ BLen(dict.Perms[2]) < 16
    ELSE BLen(dict.O[2]) < 32 \/ BLen(dict.U[2]) < 32

Held(value, algorithm) ==
    IF algorithm \in {"AESV3R5", "AESV3R6"} THEN Slice(value, 0, 48)
    ELSE Cat(Slice(value, 0, 32), Zeros(16))

\* C6: a dictionary that selects an algorithm and whose O or U is shorter
\* than 32 bytes (48 for AES-256), or whose OE or UE is shorter than 32 bytes
\* or Perms shorter than 16 for AES-256, is rejected with
\* InvalidEncryptionDict and no descriptor is made; an accepted descriptor
\* holds the first 32 (48) bytes of O and of U and no other byte of them
C6_SizesChecked ==
    (Opened /\ dict.Filter = Name("Standard") /\ OrderedAlgorithm # "None") =>
        IF TooShort(OrderedAlgorithm)
        THEN err = "InvalidEncryptionDict" /\ enc = NoEnc
        ELSE /\ err = "None"
             /\ enc.oValue = Held(dict.O[2], OrderedAlgorithm)
             /\ enc.uValue = Held(dict.U[2], OrderedAlgorithm)

\* an O of 47 bytes rejected where AES-256 was selected
C6_Witness ==
    /\ Opened /\ DictV = 5 /\ BLen(dict.O[2]) = 47
    /\ err = "InvalidEncryptionDict" /\ enc = NoEnc

\* the candidate of the last Authenticate
Candidate == call.arg[1]

\* what Authenticate derives from the candidate taken as the user password,
\* to compare with the stored credential
UserBranchValue ==
    IF IsAESV3(enc)
    THEN computeHash(preprocessPassword(Candidate).buf, enc.rValue,
                     Slice(enc.uValue, 32, 8), <<>>)
    ELSE ComputeEncryptionKey(DocumentId, PadPassword(Candidate), GetOValueRaw32(enc),
                              enc.pValue, GetKeyLengthBytes(enc), enc.rValue,
                              enc.EncryptMetadata, Zeros(32)).userKey

\* what Authenticate derives from the candidate taken as the owner password
OwnerBranchValue ==
    IF IsAESV3(enc)
    THEN computeHash(preprocessPassword(Candidate).buf, enc.rValue,
                     Slice(enc.oValue, 32, 8), Slice(enc.uValue, 0, 48))
    ELSE ComputeEncryptionKey(DocumentId,
             ComputeOwnerKey(GetOValueRaw32(enc), PadPassword(Candidate),
                             GetKeyLengthBytes(enc), enc.rValue, TRUE),
             GetOValueRaw32(enc), enc.pValue, GetKeyLengthBytes(enc), enc.rValue,
             enc.EncryptMetadata, Zeros(32)).userKey

\* the stored credential the owner branch compares with
OwnerBranchStored == IF IsAESV3(enc) THEN enc.oValue ELSE enc.uValue

\* a and b differ in one of their first keyLength bytes
Mismatch(a, b) ==
    \E k \in 0..(GetKeyLengthBytes(enc) - 1) : Slice(a, k, 1) # Slice(b, k, 1)

\* the candidate validates against neither stored credential
ValidatesNeither ==
    /\ call.op = "Authenticate"
    /\ Mismatch(UserBranchValue, enc.uValue)
    /\ Mismatch(OwnerBranchValue, OwnerBranchStored)

\* the derivations of Authenticate can run on the candidate: it passes the
\* normalisation of AES-256, and RC4 is there for RC4 and AES-128
Derivable ==
    IF IsAESV3(enc) THEN preprocessPassword(Candidate).ok ELSE hasRc4

C2_AsStated ==
    (call.op = "CreateFromObject" /\ call.arg = <<TRUE>>) =>
        /\ err = "None"
        /\ enc.Algorithm = src.enc.Algorithm
        /\ enc.KeyLength = src.enc.KeyLength
        /\ enc.pValue = src.enc.pValue
        /\ enc.uValue = src.enc.uValue
        /\ enc.oValue = src.enc.oValue
        /\ IsAESV3(src.enc) =>
                /\ enc.ueValue = src.enc.ueValue
                /\ enc.oeValue = src.enc.oeValue
                /\ enc.permsValue = src.enc.permsValue
        /\ \A password \in {made.userPassword, made.ownerPassword} :
                AuthenticateImpl(enc, password, DocumentId, Zeros(32), hasRc4).ret
                    = AuthenticateImpl(src.enc, password, DocumentId, Zeros(32), hasRc4).ret

\* the last call opened the document that CreateEncryptionDictionary wrote
\* for the descriptor src.enc
Reopened ==
    /\ call.op = "CreateFromObject"
    /\ src.how = "reparsed"
    /\ err = "None"

\* the 8 bytes of the two's complement 64-bit number whose value is that of
\* the 4 bytes p read as a signed 32-bit number
Widened(p) ==
    [i \in 1..8 |-> IF i <= 4 THEN p[i] ELSE IF p[4] >= 128 THEN 255 ELSE 0]

\* C12: the P entry written for a descriptor is its permissions p read as a
\* signed 32-bit number and widened to 64 bits, and the descriptor parsed
\* back from that entry has exactly the permissions p
C12_PermissionsRoundTrip ==
    Reopened =>
        /\ dict.P = <<"num", Widened(src.enc.pValue)>>
        /\ enc.pValue = src.enc.pValue

\* a reopened document whose P entry is a negative number
C12_Witness ==
    /\ Reopened
    /\ src.enc.pValue[4] >= 128
    /\ dict.P[2][8] = 255
    /\ enc.pValue = src.enc.pValue

\* the constraints between Algorithm, KeyLength and Revision
Constrained(e) ==
    /\ e.rValue \in 2..6
    /\ e.Algorithm = "RC4V1" => e.KeyLength = 40
    /\ e.Algorithm = "RC4V2" => e.KeyLength \in 40..128 /\ e.KeyLength % 8 = 0
    /\ e.Algorithm = "AESV2" => e.KeyLength = 128 /\ e.rValue = 4
    /\ e.Algorithm \in {"AESV3R5", "AESV3R6"} => e.KeyLength = 256 /\ e.rValue \in {5, 6}

\* the key lengths Create takes for algorithm; 0 is PdfKeyLength::Unknown
AllowedKeyLengths(algorithm) ==
    CASE algorithm = "RC4V1" -> {0, 40}
      [] algorithm = "RC4V2" -> {0} \cup {k \in 40..128 : k % 8 = 0}
      [] algorithm = "AESV2" -> {0, 128}
      [] OTHER -> {0, 256}

\* C15 as stated: every descriptor that Create or CreateFromObject returns
\* satisfies the constraints between Algorithm, KeyLength and Revision, and
\* Create with a key length the algorithm does not allow fails with
\* InvalidEncryptionDict
C15_AsStated ==
    /\ (call.op \in {"Create", "CreateFromObject"} /\ err = "None") => Constrained(enc)
    /\ (call.op = "Create" /\ call.arg[2] \notin AllowedKeyLengths(call.arg[1]))
            => err = "InvalidEncryptionDict"

\* C16 as stated: for every algorithm, the EncryptMetadata flag of the
\* descriptor parsed from a dictionary is the EncryptMetadata entry of the
\* dictionary when that is a boolean, and true when there is none
C16_AsStated ==
    (Opened /\ err = "None") =>
        enc.EncryptMetadata = IF dict.EncryptMetadata[1] = "bool"
                              THEN dict.EncryptMetadata[2]
                              ELSE TRUE

\* enc was parsed from the dictionary of a protected document whose P entry
\* somebody changed, and the last call was Authenticate with one of the
\* passwords the document was protected with
AuthenticatedTampered ==
    /\ call.op = "Authenticate"
    /\ enc.IsParsed
    /\ made.ownerPassword # <<>>
    /\ enc.pValue = TamperedPermissions
    /\ call.arg[1] \in {made.userPassword, made.ownerPassword}

\* C17 as stated: for every algorithm, on a descriptor parsed from a
\* dictionary that differs from the written one only in P, Authenticate with
\* the right user or owner password does not succeed
C17_AsStated ==
    AuthenticatedTampered => ~IsAuthenticated(ctx)

(***************************************************************************)
(* Encrypting and decrypting the strings and streams of a document: the    *)
(* session starts with a descriptor that Create made and                   *)
(* EnsureEncryptionInitialized initialised.                                *)
(***************************************************************************)
\* the algorithm and key length of the descriptors
Ciphers ==
    {<<"RC4V1", 0>>, <<"RC4V2", 0>>, <<"RC4V2", 40>>, <<"AESV2", 0>>,
     <<"AESV3R5", 0>>, <<"AESV3R6", 0>>}

\* the session after Create and EnsureEncryptionInitialized
Initialized(cipher) ==
    EnsureEncryptionInitialized(
        Create(<<117>>, <<111>>, <<4, 8, 0, 0>>, cipher[1], cipher[2], TRUE).enc,
        NewContext, DocumentId, [seed |-> 1, n |-> 0], 1, TRUE)

\* the lengths of the strings and streams encrypted
PayloadLengths == {0, 1, 15, 16, 17, 32}

\* a payload of n bytes, none of them a padding byte
Payload(n) == Bytes(n, 65)

\* the lengths of the inputs decrypted
InputLengths == {0, 1, 15, 16, 17, 31, 32, 33, 48}

\* the references of the objects
MaxObject == 2

References == {[n |-> i, g |-> 0] : i \in 1..MaxObject}

\* the number of padding bytes found in a final block unrelated to anything
Garbles == {0, 1, 16}

\* the IVs AES-256 draws in a session
MaxIVs == 2

InitCipher ==
    /\ hasRc4 = TRUE
    /\ \E cipher \in Ciphers : \E r \in {Initialized(cipher)} :
        /\ enc = r.enc
        /\ ctx = r.ctx
        /\ rng = r.rng
        /\ made = [userPassword |-> <<117>>, ownerPassword |-> <<111>>,
                   key |-> Slice(r.ctx.encryptionKey, 0, GetKeyLengthBytes(r.enc))]
    /\ call = NoCall
    /\ err = "None"
    /\ dict = NoDict
    /\ src = [how |-> "created", enc |-> NoEnc]
    /\ io = NoIo
    /\ ostream = NoStream
    /\ istream = NoStream
    /\ contexts = NoContexts

\* PdfEncrypt::EncryptTo(out, view, context, objref); Encrypt takes the
\* cipher handle of the context, and AES-256 draws an IV
DoEncryptTo(view, objref) ==
    /\ enc.initialized
    /\ IsAESV3(enc) => rng.n < 2 * GetKeyLengthBytes(enc) + MaxIVs * AES_IV_LENGTH
    /\ call' = [op |-> "EncryptTo", arg |-> <<>>]
    /\ \E r \in {EncryptTo(enc, ctx, objref, view, rng, hasRc4)} :
        /\ err' = r.err
        /\ io' = [view |-> view, out |-> r.out, written |-> r.written, objref |-> objref]
    /\ ctx' = GetCryptCtx(ctx)
    /\ rng' = IF IsAESV3(enc) THEN [rng EXCEPT !.n = @ + AES_IV_LENGTH] ELSE rng
    /\ UNCHANGED <<contexts, enc, hasRc4, made, dict, src, ostream, istream>>

\* the inputs given to DecryptTo: what EncryptTo just wrote, whole and cut
\* short, and bytes that no encryption made
Inputs ==
    {Bytes(n, 1) : n \in InputLengths}
        \cup (IF call.op = "EncryptTo"
              THEN {Slice(io.out, 0, Min(n, BLen(io.out))) : n \in InputLengths}
                       \cup {io.out}
              ELSE {})

\* PdfEncrypt::DecryptTo(out, view, context, objref); block-mode Decrypt
\* returns before it takes the cipher handle when view holds no ciphertext
DoDecryptTo(view, objref, garble) ==
    /\ enc.initialized
    /\ call' = [op |-> "DecryptTo", arg |-> <<>>]
    /\ \E r \in {DecryptTo(enc, ctx, objref, view, garble, hasRc4)} :
        /\ err' = r.err
        /\ io' = [view |-> view, out |-> r.out, written |-> r.written, objref |-> objref]
    /\ ctx' = IF IsRC4(enc) \/ BLen(view) > CalculateStreamOffset(enc)
              THEN GetCryptCtx(ctx) ELSE ctx
    /\ UNCHANGED <<contexts, enc, rng, hasRc4, made, dict, src, ostream, istream>>

\* the references given to CreateObjKey: object numbers that differ in
\* the first, the second and the fourth byte, generations that differ in the
\* first and the second byte
KeyReferences ==
    {[n |-> n, g |-> g] : n \in {1, 2, 257, 16777217}, g \in {0, 1, 256}}

\* PdfEncryptMD5Base::CreateObjKey(objkey, pnKeyLen, encryptionKey, objref)
\* with the key of the context
DoCreateObjKey(objref) ==
    /\ enc.initialized
    /\ ~IsAESV3(enc)
    /\ call' = [op |-> "CreateObjKey",
                arg |-> <<objref, CreateObjKey(enc, ctx.encryptionKey, objref)>>]
    /\ err' = "None"
    /\ UNCHANGED <<contexts, enc, ctx, rng, hasRc4, made, dict, src, io, ostream, istream>>

\* the lengths of the passwords given to PadPassword
PasswordLengths == {0, 1, 31, 32, 33, 40}

\* passwords of those lengths: two of a length agree in their first 32 bytes
\* and in no later byte
LongPasswords ==
    {[i \in 1..n |-> IF i <= 32 THEN 64 + i ELSE rest + i] :
        n \in PasswordLengths, rest \in {0, 100}}

\* PdfEncryptMD5Base::PadPassword(password, pswd)
DoPadPassword(password) ==
    /\ enc.initialized
    /\ ~IsAESV3(enc)
    /\ call' = [op |-> "PadPassword", arg |-> <<password, PadPassword(password)>>]
    /\ err' = "None"
    /\ UNCHANGED <<contexts, enc, ctx, rng, hasRc4, made, dict, src, io, ostream, istream>>

NextCipher ==
    \/ \E n \in PayloadLengths, objref \in References : DoEncryptTo(Payload(n), objref)
    \/ \E password \in LongPasswords : DoPadPassword(password)
    \/ \E objref \in KeyReferences : DoCreateObjKey(objref)
    \/ \E view \in Inputs, objref \in References, garble \in Garbles :
            DoDecryptTo(view, objref, garble)

SpecCipher == InitCipher /\ [][NextCipher]_vars

(***************************************************************************)
(* Properties of one-shot encryption and decryption.                       *)
(***************************************************************************)
BlockMode == ~IsRC4(enc)

\* the last call was EncryptTo and it returned
Encrypted == call.op = "EncryptTo" /\ err = "None"

\* the bytes AES-CBC with padding makes of n bytes: the blocks n bytes fill
\* or start, and one more when they fill them
PaddedLength(n) == AES_BLOCK_SIZE * ((n \div AES_BLOCK_SIZE) + 1)

\* C8: the output of EncryptTo for n bytes of plaintext is n bytes long in
\* running-state (RC4) mode; in block (AES) mode it is n rounded up to a
\* multiple of 16, plus 16, plus 16 more when n is a multiple of 16, and that
\* is the 16 bytes of the IV plus the ciphertext bytes written for n bytes of
\* padded plaintext: Encrypt fills the output exactly.
C8_OutputLength ==
    Encrypted =>
        IF BlockMode
        THEN /\ BLen(io.out) = 16 * ((BLen(io.view) + 15) \div 16) + 16
                                   + (IF BLen(io.view) % 16 = 0 THEN 16 ELSE 0)
             /\ BLen(io.out) = AES_IV_LENGTH + PaddedLength(BLen(io.view))
             /\ io.written = BLen(io.out)
        ELSE /\ BLen(io.out) = BLen(io.view)
             /\ io.written = BLen(io.out)

\* a block-mode EncryptTo of a plaintext that fills its blocks returned
C8_Witness ==
    /\ Encrypted
    /\ BlockMode
    /\ BLen(io.view) = 2 * AES_BLOCK_SIZE
    /\ io.written = 4 * AES_BLOCK_SIZE

\* the last call was DecryptTo in block mode, of an input whose ciphertext
\* part is not a multiple of 16
RaggedInput ==
    /\ call.op = "DecryptTo"
    /\ BlockMode
    /\ (BLen(io.view) - AES_IV_LENGTH) % AES_BLOCK_SIZE # 0

\* C10 as stated: in block mode, DecryptTo of any input whose ciphertext
\* part (the input less the 16 bytes of the IV) is not a multiple of 16
\* raises InternalLogic and gives no plaintext.
C10_AsStated ==
    RaggedInput => err = "InternalLogic" /\ io.written = 0

\* C10: in block mode, DecryptTo of an input of more than 16 bytes whose
\* ciphertext part is not a multiple of 16 raises InternalLogic and no byte
\* of plaintext is written; an input of 16 bytes or fewer holds no
\* ciphertext, and DecryptTo returns an empty output and raises nothing.
C10_RaggedCiphertextIsFatal ==
    RaggedInput =>
        IF BLen(io.view) > AES_IV_LENGTH
        THEN err = "InternalLogic" /\ io.written = 0
        ELSE err = "None" /\ io.out = <<>> /\ io.written = 0

\* DecryptTo refused the 17 bytes that EncryptTo's output starts with
C10_Witness ==
    /\ RaggedInput
    /\ BLen(io.view) = AES_IV_LENGTH + 1
    /\ io.view # Bytes(AES_IV_LENGTH + 1, 1)
    /\ err = "InternalLogic"

\* the references a and b agree in the bytes CreateObjKey reads: the low
\* 3 of the object number, the low 2 of the generation number
SameKeyBytes(a, b) ==
    /\ a.n % 16777216 = b.n % 16777216
    /\ a.g % 65536 = b.g % 65536

\* the object key of the last call: the pnKeyLen first bytes of objkey
ObjectKey(k) == Slice(k.objkey, 0, k.keylen)

\* C11 as stated: CreateObjKey gives the same object key for identical
\* references and different object keys for any two different references.
C11_AsStated ==
    call.op = "CreateObjKey" =>
        \A r \in KeyReferences :
            (ObjectKey(CreateObjKey(enc, ctx.encryptionKey, r)) = ObjectKey(call.arg[2]))
                <=> (r = call.arg[1])

\* C11: under one document key, CreateObjKey gives two references the same
\* object key exactly when they agree in the low 3 bytes of the object
\* number and the low 2 bytes of the generation number; so identical
\* references get the same key, and references that differ in those bytes
\* get different keys.
C11_KeyPerReference ==
    call.op = "CreateObjKey" =>
        \A r \in KeyReferences :
            (ObjectKey(CreateObjKey(enc, ctx.encryptionKey, r)) = ObjectKey(call.arg[2]))
                <=> SameKeyBytes(r, call.arg[1])

\* CreateObjKey gave a 10-byte key for a reference that differs from another
\* in the generation number only
C11_Witness ==
    /\ call.op = "CreateObjKey"
    /\ call.arg[1] = [n |-> 2, g |-> 256]
    /\ BLen(ObjectKey(call.arg[2])) = 10
    /\ ObjectKey(call.arg[2]) # ObjectKey(CreateObjKey(enc, ctx.encryptionKey, [n |-> 2, g |-> 0]))

\* byte i (from 1) of the padding constant
PaddingByte(i) == padding[1].t[2][i]

\* C14: PadPassword yields exactly 32 bytes, the first min(length, 32) bytes
\* of the password followed by the leading bytes of the padding constant
\* (the padding constant itself for the empty password), and the bytes of
\* the password past the 32nd have no influence on them
C14_PaddedPassword ==
    call.op = "PadPassword" =>
        LET password == call.arg[1]
            pswd == call.arg[2]
        IN /\ BLen(pswd) = 32
           /\ pswd = Lit([i \in 1..32 |-> IF i <= Len(password) THEN password[i]
                                           ELSE PaddingByte(i - Len(password))])
           /\ password = <<>> => pswd = padding
           /\ \A other \in LongPasswords :
                    SubSeq(other, 1, Min(Len(other), 32))
                        = SubSeq(password, 1, Min(Len(password), 32))
                    => PadPassword(other) = pswd

\* a password of 40 bytes padded to its first 32, as the password of 33
\* bytes with another 33rd byte is
C14_Witness ==
    /\ call.op = "PadPassword"
    /\ Len(call.arg[1]) = 40
    /\ call.arg[2] = Lit(SubSeq(call.arg[1], 1, 32))
    /\ \E other \in LongPasswords :
            /\ Len(other) = 33
            /\ other[33] # call.arg[1][33]
            /\ PadPassword(other) = call.arg[2]

(***************************************************************************)
(* Encrypting and decrypting through the stream adapters, in a session     *)
(* that starts as the one above: it writes streams through output          *)
(* adapters, then reads one stream back through an input adapter.          *)
(***************************************************************************)
\* the sizes of the buffers written to an output adapter
WriteSizes == {0, 1, 15, 16, 17}

\* the writes made on an output adapter
MaxWrites == 2

\* the sizes of the buffers given to an input adapter
ReadSizes == {1, 16, 17, 64}

\* the bytes that follow the encrypted bytes in the stream an input adapter
\* wraps
Trailers == {0, 3}

\* the streams an input adapter is made for: what the output adapter of the
\* session has written or, in a session that made no output adapter, what
\* EncryptTo makes of a payload
StreamSources ==
    IF ostream.open
    THEN {[data |-> ostream.data, wrote |-> ostream.plain, wroteRef |-> ostream.objref]}
    ELSE {[data |-> EncryptTo(enc, ctx, objref, Payload(n), rng, hasRc4).out,
           wrote |-> Payload(n), wroteRef |-> objref] :
              n \in PayloadLengths, objref \in References}

\* PdfEncrypt::CreateEncryptionOutputStream(outputStream, context, objref)
DoCreateEncryptionOutputStream(objref) ==
    /\ enc.initialized
    /\ ~istream.open
    /\ call' = [op |-> "CreateEncryptionOutputStream", arg |-> <<>>]
    /\ \E r \in {CreateEncryptionOutputStream(enc, ctx, objref)} :
        /\ err' = r.err
        /\ ctx' = r.ctx
        /\ ostream' = r.stream
    /\ UNCHANGED <<contexts, enc, rng, hasRc4, made, dict, src, io, istream>>

\* OutputStream::Write(buffer, size) on the output adapter; the bytes
\* written continue the payload
DoWrite(size) ==
    /\ ostream.open
    /\ ostream.calls < MaxWrites
    /\ ~istream.open
    /\ call' = [op |-> "Write", arg |-> <<size>>]
    /\ err' = "None"
    /\ ostream' = writeBuffer(ostream, Bytes(size, 65 + BLen(ostream.plain)))
    /\ UNCHANGED <<contexts, enc, ctx, rng, hasRc4, made, dict, src, io, istream>>

\* PdfEncrypt::CreateEncryptionInputStream(inputStream, inputLen, context,
\* objref), inputStream holding source and trailer more bytes, inputLen
\* being the length of source
DoCreateEncryptionInputStream(objref, source, trailer) ==
    /\ enc.initialized
    /\ ~istream.open
    /\ call' = [op |-> "CreateEncryptionInputStream", arg |-> <<>>]
    /\ \E r \in {CreateEncryptionInputStream(enc, ctx, objref, BLen(source.data),
                                               Cat(source.data, Bytes(trailer, 200)))} :
        /\ err' = r.err
        /\ ctx' = r.ctx
        /\ istream' = [r.stream EXCEPT !.wrote = source.wrote,
                                       !.wroteRef = source.wroteRef]
    /\ UNCHANGED <<contexts, enc, rng, hasRc4, made, dict, src, io, ostream>>

\* InputStream::Read(buffer, len, eof) on the input adapter; a reader stops
\* at eof and gives up an adapter that raised
DoRead(len, garble) ==
    /\ istream.open
    /\ ~istream.eof
    /\ ~istream.raised
    /\ \E r \in {readBuffer(istream, len, garble)} :
        /\ call' = [op |-> "Read", arg |-> <<len, r.count>>]
        /\ err' = r.err
        /\ istream' = r.stream
    /\ UNCHANGED <<contexts, enc, ctx, rng, hasRc4, made, dict, src, io, ostream>>

NextStream ==
    \/ \E objref \in References : DoCreateEncryptionOutputStream(objref)
    \/ \E size \in WriteSizes : DoWrite(size)
    \/ \E objref \in References, source \in StreamSources, trailer \in Trailers :
            DoCreateEncryptionInputStream(objref, source, trailer)
    \/ \E len \in ReadSizes, garble \in Garbles : DoRead(len, garble)

SpecStream == InitCipher /\ [][NextStream]_vars

(***************************************************************************)
(* Properties of the stream adapters.                                      *)
(***************************************************************************)
\* the input adapter has read to eof a stream that the output adapter wrote
\* for the same object
ReadBack ==
    /\ ostream.open
    /\ istream.open
    /\ istream.eof
    /\ istream.objref = istream.wroteRef

\* C4 as stated: for every algorithm, CreateEncryptionOutputStream returns
\* an adapter, and what is written through it and read back through the
\* adapter of CreateEncryptionInputStream, with the same context and object
\* reference, is the payload, whatever its length.
C4_AsStated ==
    /\ call.op = "CreateEncryptionOutputStream" => err = "None" /\ ostream.open
    /\ ReadBack => istream.plain = ostream.plain

\* C9 as stated: CreateEncryptionOutputStream on an AES-256 descriptor
\* fails with NotImplemented and makes no adapter.
C9_AsStated ==
    (call.op = "CreateEncryptionOutputStream" /\ IsAESV3(enc)) =>
        err = "NotImplemented" /\ ~ostream.open

\* the block-mode input adapter is open on a stream that EncryptTo wrote for
\* the object it is opened for
BlockModeReading ==
    /\ istream.open
    /\ istream.kind = "aes"
    /\ istream.objref = istream.wroteRef

\* C19 as stated: whatever the sizes of the buffers the caller reads with,
\* the block-mode input adapter never fails the assertion outlen <= len and
\* never returns more bytes than asked for, the bytes it has returned are
\* the leading bytes of the plaintext, in order, and at eof they are the
\* whole plaintext
C19_AsStated ==
    BlockModeReading =>
        /\ err # "AssertionFailed"
        /\ call.op = "Read" => call.arg[2] <= call.arg[1]
        /\ istream.plain = Slice(istream.wrote, 0, BLen(istream.plain))
        /\ istream.eof => istream.plain = istream.wrote

(***************************************************************************)
(* The life of a context: the session creates a descriptor, initialises    *)
(* it, writes streams through the output adapter, and ends with the        *)
(* destruction of the context.                                             *)
(***************************************************************************)
\* PdfEncryptContext::~PdfEncryptContext() on the context of the session;
\* call keeps what the key and the scratch state held before
DoDestroyContext ==
    /\ call.op # "~PdfEncryptContext"
    /\ call' = [op |-> "~PdfEncryptContext", arg |-> <<ctx.encryptionKey, ctx.customCtx>>]
    /\ err' = "None"
    /\ ctx' = DestroyContext(ctx)
    /\ UNCHANGED <<contexts, enc, rng, hasRc4, made, dict, src, io, ostream, istream>>

\* PdfEncrypt::CreateEncryptionDictionary(dictionary) on the descriptor that
\* Create returned, before EnsureEncryptionInitialized: the function has no
\* precondition
DoCreateEncryptionDictionaryEarly ==
    /\ enc # NoEnc
    /\ ~enc.initialized
    /\ call' = [op |-> "CreateEncryptionDictionary", arg |-> <<>>]
    /\ err' = "None"
    /\ dict' = CreateEncryptionDictionary(enc)
    /\ UNCHANGED <<contexts, enc, ctx, rng, hasRc4, made, src, io, ostream, istream>>

\* PdfEncryptContext copy(ctx): the session goes on with the copy; call
\* keeps the source
DoCopyContext ==
    /\ call' = [op |-> "PdfEncryptContext(rhs)", arg |-> <<ctx>>]
    /\ err' = "None"
    /\ ctx' = CopyContext(ctx)
    /\ UNCHANGED <<contexts, enc, rng, hasRc4, made, dict, src, io, ostream, istream>>

\* the contexts assigned to: a new one, and one that failed to authenticate
\* for another document
AssignTargets ==
    {NewContext,
     [NewContext EXCEPT !.AuthResult = "Failed", !.documentId = Lit(<<120>>),
                        !.cryptCtx = 1]}

\* lhs = ctx: the session goes on with lhs; call keeps the source
DoAssignContext(lhs) ==
    /\ call' = [op |-> "operator=", arg |-> <<ctx>>]
    /\ err' = "None"
    /\ ctx' = AssignContext(lhs, ctx)
    /\ UNCHANGED <<contexts, enc, rng, hasRc4, made, dict, src, io, ostream, istream>>

\* the context is not used after its destruction
Alive == call.op # "~PdfEncryptContext"

NextContext ==
    \/ Alive /\ \E a \in Algorithms : DoCreate(<<117>>, <<111>>, <<4, 8, 0, 0>>, a, 0)
    \/ Alive /\ DoEnsureEncryptionInitialized(1)
    \/ Alive /\ DoCreateEncryptionDictionaryEarly
    \/ Alive /\ \E objref \in References : DoCreateEncryptionOutputStream(objref)
    \/ Alive /\ \E size \in WriteSizes : DoWrite(size)
    \/ Alive /\ DoCopyContext
    \/ Alive /\ \E lhs \in AssignTargets : DoAssignContext(lhs)
    \/ DoDestroyContext

SpecContext == Init /\ [][NextContext]_vars

(***************************************************************************)
(* Properties of the life of a context.                                    *)
(***************************************************************************)
\* every byte of the password p is zero
Wiped(p) == \A i \in 1..Len(p) : p[i] = 0

\* the scratch state of the RC4 adapters, zero-filled
ZeroScratch == [Rc4key |-> Zeros(16), Rc4last |-> <<"ksa", <<>>>>]

\* C18: when the context is destroyed, every byte of its encryption key and
\* of its scratch state is zero before the memory is released; and once
\* EnsureEncryptionInitialized has generated the key, the user and owner
\* passwords the descriptor holds are all zero
C18_SensitiveWiped ==
    /\ call.op = "~PdfEncryptContext" =>
            /\ ctx.encryptionKey = Zeros(32)
            /\ ctx.customCtx # <<>> => ctx.customCtx[1] = ZeroScratch
    /\ enc.initialized =>
            /\ Wiped(enc.userPass) /\ Len(enc.userPass) = Len(made.userPassword)
            /\ Wiped(enc.ownerPass) /\ Len(enc.ownerPass) = Len(made.ownerPassword)

\* the destruction of a context that held a key and the scratch state of an
\* RC4 adapter, the descriptor having held two passwords
C18_Witness ==
    /\ call.op = "~PdfEncryptContext"
    /\ call.arg[1] # Zeros(32)
    /\ call.arg[2] # <<>>
    /\ call.arg[2][1] # ZeroScratch
    /\ ctx.encryptionKey = Zeros(32)
    /\ ctx.customCtx = <<ZeroScratch>>
    /\ enc.initialized
    /\ enc.userPass = <<0>>
    /\ enc.ownerPass = <<0>>

\* C22 as stated: the U and O values and the encryption key of a descriptor
\* made from scratch are derived at creation, so that CreateEncryptionDictionary,
\* EncryptTo, DecryptTo and Authenticate never see such a descriptor with its
\* U and O not yet derived; a parsed descriptor has derived no key before
\* Authenticate is called
C22_AsStated ==
    /\ (enc # NoEnc /\ ~enc.IsParsed /\ err = "None"
            /\ call.op \in {"CreateEncryptionDictionary", "EncryptTo", "DecryptTo",
                             "Authenticate"})
            => /\ enc.initialized
               /\ GetUValueRaw32(enc) # Zeros(32)
               /\ GetOValueRaw32(enc) # Zeros(32)
    /\ (Opened /\ err = "None") => ctx.encryptionKey = Zeros(32)

\* the last call made the context of the session a copy of call.arg[1], by
\* construction or by assignment
Copied == call.op \in {"PdfEncryptContext(rhs)", "operator="}

\* C24 as stated: a context made by copy construction or assignment has the
\* result, the key, the document identifier and the scratch state of its
\* source, so that EncryptTo through it writes the bytes EncryptTo writes
\* through the source
C24_AsStated ==
    Copied =>
        /\ ctx.AuthResult = call.arg[1].AuthResult
        /\ ctx.encryptionKey = call.arg[1].encryptionKey
        /\ ctx.documentId = call.arg[1].documentId
        /\ ctx.customCtx = call.arg[1].customCtx
        /\ enc.initialized =>
                \A n \in PayloadLengths, objref \in References :
                    EncryptTo(enc, ctx, objref, Payload(n), rng, hasRc4)
                        = EncryptTo(enc, call.arg[1], objref, Payload(n), rng, hasRc4)

(***************************************************************************)
(* The one-shot round trip.                                                *)
(***************************************************************************)
\* DecryptTo is given what the EncryptTo before it returned, for the same object
DecryptsBack ==
    /\ call.op = "EncryptTo"
    /\ err = "None"
    /\ call'.op = "DecryptTo"
    /\ io'.view = io.out
    /\ io'.objref = io.objref

\* C28: DecryptTo applied to the output of EncryptTo, with the same context
\* and object reference, returns the bytes given to EncryptTo, whatever
\* their number and the algorithm
C28_OneShotRoundTrip ==
    [][DecryptsBack => err' = "None" /\ io'.out = io.view /\ BLen(io'.out) = BLen(io.view)]_vars

\* the size DecryptTo first gives its output buffer
FirstSize == FirstResize(BLen(io.view) - CalculateStreamOffset(enc))

\* C29: DecryptTo on a block-mode input of at most 16 bytes returns an empty
\* output without raising; the size it first gives its output buffer,
\* computed modulo 2^64, is never more than the input length plus 16; and
\* the output it returns is never longer than the input
C29_ShortInput ==
    call.op = "DecryptTo" =>
        /\ (~IsRC4(enc) /\ BLen(io.view) <= 16) => err = "None" /\ io.out = <<>>
        /\ FirstSize[3] = 0
        /\ FirstSize[4] = 0
        /\ FromSizeT(FirstSize) <= BLen(io.view) + 16
        /\ err = "None" => BLen(io.out) <= BLen(io.view)

\* DecryptTo was given fewer bytes than an IV in block mode: the difference
\* view.size() - 16 wrapped and the buffer was first resized to nothing
C29_Witness ==
    /\ call.op = "DecryptTo"
    /\ ~IsRC4(enc)
    /\ BLen(io.view) = 15
    /\ ToSizeT(BLen(io.view) - CalculateStreamOffset(enc)) = <<Limb - 1, Limb - 1, Limb - 1, Limb - 1>>
    /\ FirstSize = <<0, 0, 0, 0>>
    /\ io.out = <<>>

\* DecryptTo has returned the 16 bytes that EncryptTo made 48 of, in block
\* mode
C28_Witness ==
    /\ call.op = "DecryptTo"
    /\ err = "None"
    /\ ~IsRC4(enc)
    /\ BLen(io.view) = 48
    /\ io.out = Payload(16)

(***************************************************************************)
(* The cipher handles of the contexts of a program: contexts are made,     *)
(* copied, assigned, used and destroyed.                                   *)
(***************************************************************************)
session == <<enc, ctx, rng, hasRc4, call, err, made, dict, src, io, ostream, istream>>

\* the handle a context made from rhs (context j) points to: none, or the
\* one rhs points to when the pointer was copied
HandleTaken(c, j) == IF c.cryptCtx = 0 THEN 0 ELSE contexts.handle[j]

\* EVP_CIPHER_CTX_free(m_cryptCtx) by context i; freeing nullptr does nothing
Freed(i) ==
    IF contexts.handle[i] = 0 THEN contexts.released
    ELSE Append(contexts.released, <<contexts.handle[i], i>>)

\* PdfEncryptContext(): context i is constructed
DoNewContext(i) ==
    /\ contexts.life[i] = "none"
    /\ contexts' = [contexts EXCEPT !.life[i] = "live", !.ctx[i] = NewContext,
                                    !.handle[i] = 0, !.last = <<"new", i>>]
    /\ UNCHANGED session

\* PdfEncryptContext(rhs): context i is constructed as a copy of context j
DoCopyConstruct(i, j) ==
    /\ contexts.life[i] = "none"
    /\ contexts.life[j] = "live"
    /\ contexts' = [contexts EXCEPT !.life[i] = "live",
                                    !.ctx[i] = CopyContext(contexts.ctx[j]),
                                    !.handle[i] = HandleTaken(CopyContext(contexts.ctx[j]), j),
                                    !.last = <<"copy", i>>]
    /\ UNCHANGED session

\* what a read of the released scratch state can give: what it held, or
\* whatever the allocator left there
ReleasedScratch(c) ==
    {c.customCtx, <<[Rc4key |-> Sym(<<"released">>, 16), Rc4last |-> <<"ksa", <<>>>>]>>}

\* operator=(rhs): context j is assigned to context i, which frees its
\* handle. There is no test for self-assignment: with i = j and a scratch
\* state, the scratch state is released before it is copied from
DoAssign(i, j) ==
    /\ contexts.life[i] = "live"
    /\ contexts.life[j] = "live"
    /\ \E scratch \in IF i = j /\ contexts.ctx[i].customCtx # <<>>
                       THEN ReleasedScratch(contexts.ctx[i])
                       ELSE {contexts.ctx[j].customCtx} :
        contexts' = [contexts EXCEPT
            !.ctx[i] = [AssignContext(contexts.ctx[i], contexts.ctx[j])
                            EXCEPT !.customCtx = scratch],
            !.handle[i] = HandleTaken(AssignContext(contexts.ctx[i], contexts.ctx[j]), j),
            !.released = Freed(i),
            !.last = <<"assign", i>>]
    /\ UNCHANGED session

\* GetCustomCtx<RC4EncryptContext>() on context i
DoGetCustomCtx(i) ==
    /\ contexts.life[i] = "live"
    /\ contexts' = [contexts EXCEPT !.ctx[i] = GetCustomCtx(contexts.ctx[i]),
                                    !.last = <<"scratch", i>>]
    /\ UNCHANGED session

\* GetCryptCtx() on context i: EVP_CIPHER_CTX_new() when it holds no handle
DoGetCryptCtx(i) ==
    /\ contexts.life[i] = "live"
    /\ contexts.ctx[i].cryptCtx = 0 => Len(contexts.created) < MaxHandles
    /\ contexts' = [contexts EXCEPT
            !.ctx[i] = GetCryptCtx(contexts.ctx[i]),
            !.handle[i] = IF contexts.ctx[i].cryptCtx = 0
                          THEN Len(contexts.created) + 1 ELSE @,
            !.created = IF contexts.ctx[i].cryptCtx = 0 THEN Append(@, i) ELSE @,
            !.last = <<"use", i>>]
    /\ UNCHANGED session

\* ~PdfEncryptContext() on context i
DoDestroy(i) ==
    /\ contexts.life[i] = "live"
    /\ contexts' = [contexts EXCEPT !.life[i] = "dead",
                                    !.ctx[i] = DestroyContext(contexts.ctx[i]),
                                    !.handle[i] = 0,
                                    !.released = Freed(i),
                                    !.last = <<"destroy", i>>]
    /\ UNCHANGED session

NextHandles ==
    \/ \E i \in ContextIds : DoNewContext(i)
    \/ \E i, j \in ContextIds : DoCopyConstruct(i, j)
    \/ \E i, j \in ContextIds : DoAssign(i, j)
    \/ \E i \in ContextIds : DoGetCryptCtx(i)
    \/ \E i \in ContextIds : DoGetCustomCtx(i)
    \/ \E i \in ContextIds : DoDestroy(i)

SpecHandles == Init /\ [][NextHandles]_vars

(***************************************************************************)
(* Properties of the cipher handles.                                       *)
(***************************************************************************)
Handles == 1..Len(contexts.created)

\* the contexts that called EVP_CIPHER_CTX_free on handle h
Releases(h) == {k \in 1..Len(contexts.released) : contexts.released[k][1] = h}

\* no two contexts hold the same handle, and no context holds a released one
Exclusive ==
    \A i \in ContextIds :
        contexts.handle[i] # 0 =>
            /\ contexts.life[i] = "live"
            /\ contexts.created[contexts.handle[i]] = i
            /\ Releases(contexts.handle[i]) = {}
            /\ \A j \in ContextIds \ {i} : contexts.handle[j] # contexts.handle[i]

\* a new, copied or assigned-to context holds no handle
LazilyMade ==
    contexts.last[1] \in {"new", "copy", "assign"} => contexts.handle[contexts.last[2]] = 0

\* a handle is released at most once, by the context that made it, and the
\* handles no context holds any more have been released
ReleasedOnce ==
    \A h \in Handles :
        /\ Cardinality(Releases(h)) <= 1
        /\ \A k \in Releases(h) : contexts.released[k][2] = contexts.created[h]
        /\ (\A i \in ContextIds : contexts.handle[i] # h) => Cardinality(Releases(h)) = 1

\* C25 as stated: no two contexts hold the same handle; a new, copied or
\* assigned-to context holds none until its first use; a context creates at
\* most one handle; each handle is released exactly once, by the context
\* that created it
C25_AsStated ==
    /\ Exclusive
    /\ LazilyMade
    /\ \A i \in ContextIds :
            Cardinality({h \in Handles : contexts.created[h] = i}) <= 1
    /\ ReleasedOnce

\* C25: no two contexts hold the same handle; a new, copied or assigned-to
\* context holds none until its first use; a context creates a handle only
\* when it holds none; each handle is released exactly once, by the context
\* that created it
C25_HandlesExclusive ==
    /\ Exclusive
    /\ LazilyMade
    /\ \A i \in ContextIds :
            Cardinality({h \in Handles : contexts.created[h] = i /\ Releases(h) = {}}) <= 1
    /\ ReleasedOnce

\* two contexts, one a copy of the other, each with its own handle, and a
\* third destroyed after it released the handle it had made
C25_Witness ==
    /\ contexts.life = <<"live", "live", "dead">>
    /\ contexts.handle[1] # 0
    /\ contexts.handle[2] # 0
    /\ contexts.handle[1] # contexts.handle[2]
    /\ Len(contexts.released) = 1
    /\ contexts.released[1][2] = 3

(***************************************************************************)
(* The RC4 streams made on the scratch state of one context.               *)
(***************************************************************************)
\* the keys given to PdfRC4Stream, each with its length: all zero, one a
\* prefix of another, and unrelated ones
RC4Keys ==
    {Zeros(5), Zeros(16), Bytes(5, 1), Bytes(10, 1), Bytes(16, 1), Bytes(5, 9), Bytes(16, 9)}

Directions == {"output", "input"}

\* PdfRC4OutputStream / PdfRC4InputStream(stream, rc4Ctx.Rc4key,
\* rc4Ctx.Rc4last, key, keylen) on the scratch state of the context
DoPdfRC4Stream(direction, key) ==
    /\ IsRC4(enc)
    /\ call' = [op |-> "PdfRC4Stream", arg |-> <<direction, key>>]
    /\ \E r \in {NewRC4Adapter(GetCustomCtx(ctx), [objkey |-> key, keylen |-> BLen(key)],
                                [n |-> 0, g |-> 0], 0, <<>>)} :
        /\ err' = r.err
        /\ ctx' = r.ctx
        /\ ostream' = IF direction = "output" THEN r.stream ELSE ostream
        /\ istream' = IF direction = "input" THEN r.stream ELSE istream
    /\ UNCHANGED <<contexts, enc, rng, hasRc4, made, dict, src, io>>

NextRC4 == \E direction \in Directions, key \in RC4Keys : DoPdfRC4Stream(direction, key)

SpecRC4 == InitCipher /\ [][NextRC4]_vars

\* the stream the last call made
LastStream == IF call.arg[1] = "output" THEN ostream ELSE istream

====
